---- MODULE Spec2Model ----
(***************************************************************************)
(* Calendar hold sync: the metadata codec, the overlap detector, the       *)
(* reconcile planner (packages/hold-sync-core) and the executePlan driver  *)
(* of the hold-sync CLI that applies a plan to the target calendar.        *)
(*                                                                         *)
(* Text is modelled as a sequence of one-character strings, so that        *)
(* indexOf, slice, trim, JSON and base64url work on characters as the code *)
(* does.  `undefined` is the one-element sequence Undefined, which is no   *)
(* text (its element is not one character).                                *)
(*                                                                         *)
(* Spec is executePlan run after run on one target calendar.  ApplySpec is *)
(* its loop with each backend call as an issue and a completion.           *)
(* InputSpec is planReconcile on listings with foreign descriptions and    *)
(* incomplete ranges.  CodecSpec, KeySpec and OverlapSpec apply the codec, *)
(* holdKey and isOverlap to inputs of their own.  WatchSpec is the watch   *)
(* and reconcile commands await by await, with a source calendar that      *)
(* changes, failing calls and signals.  GuardSpec is the guard of the      *)
(* configured gog commands in GogClient and validateConfig.  ConvergeSpec  *)
(* is Spec for the policy allow and desired holds of distinct keys.        *)
(* PlanSpec is Spec up to the plan of the first run.                       *)
(* MappingsSpec is the poll loop of watch over two mappings, a mapping a   *)
(* step.  BackfillSpec is the backfill command followed by the planning of *)
(* a reconcile.                                                            *)
(***************************************************************************)
EXTENDS Integers, Sequences, FiniteSets, TLC

\* ------------------------------------------------------------------ text

\* The value of an optional field that is not set.
Undefined == <<"undefined">>

\* JavaScript's falsiness of an optional string: undefined or "".
Falsy(s) == s = Undefined \/ s = <<>>

\* a ?? b
Coalesce(a, b) == IF a = Undefined THEN b ELSE a

\* The printable ASCII characters, code 32 (space) to 126 (~), in code order
\* (code 96, the grave accent, is written "grave": no text of the model holds it).
Ascii ==
  << " ", "!", "\"", "#", "$", "%", "&", "'", "(", ")", "*", "+", ",", "-",
     ".", "/", "0", "1", "2", "3", "4", "5", "6", "7", "8", "9", ":", ";",
     "<", "=", ">", "?", "@", "A", "B", "C", "D", "E", "F", "G", "H", "I",
     "J", "K", "L", "M", "N", "O", "P", "Q", "R", "S", "T", "U", "V", "W",
     "X", "Y", "Z", "[", "\\", "]", "^", "_", "grave", "a", "b", "c", "d", "e",
     "f", "g", "h", "i", "j", "k", "l", "m", "n", "o", "p", "q", "r", "s",
     "t", "u", "v", "w", "x", "y", "z", "{", "|", "}", "~" >>

AsciiChars == {Ascii[i] : i \in 1..Len(Ascii)}

\* String.prototype.charCodeAt for one character.
CodeOf == [c \in AsciiChars |-> 31 + CHOOSE i \in 1..Len(Ascii) : Ascii[i] = c]

\* String.fromCharCode for one byte of a UTF-8 decoded buffer.
CharOf(b) == IF b >= 32 /\ b <= 126 THEN Ascii[b - 31] ELSE "\\uFFFD"

\* a < b for two strings: the comparison by UTF-16 code units that
\* Array.prototype.sort() uses when it is given no comparator.
RECURSIVE StrLess(_, _)
StrLess(a, b) ==
  IF b = <<>> THEN FALSE
  ELSE IF a = <<>> THEN TRUE
  ELSE IF CodeOf[Head(a)] # CodeOf[Head(b)] THEN CodeOf[Head(a)] < CodeOf[Head(b)]
  ELSE StrLess(Tail(a), Tail(b))

\* String.prototype.indexOf(needle), 0-based; -1 when absent.
IndexOf(text, needle) ==
  LET n == Len(needle)
      hits == {i \in 1..(Len(text) - n + 1) : SubSeq(text, i, i + n - 1) = needle}
  IN IF hits = {} THEN -1
     ELSE (CHOOSE i \in hits : \A j \in hits : i <= j) - 1

\* String.prototype.slice(from) with a 0-based non-negative from.
Slice(text, from) == SubSeq(text, from + 1, Len(text))

\* String.prototype.trim(): the model's only whitespace character is space.
RECURSIVE TrimStart(_)
TrimStart(text) ==
  IF text # <<>> /\ Head(text) = " " THEN TrimStart(Tail(text)) ELSE text

RECURSIVE TrimEnd(_)
TrimEnd(text) ==
  IF text # <<>> /\ text[Len(text)] = " "
  THEN TrimEnd(SubSeq(text, 1, Len(text) - 1))
  ELSE text

Trim(text) == TrimEnd(TrimStart(text))

\* Concatenation of a sequence of texts with a separator (Array.join).
RECURSIVE Join(_, _)
Join(parts, sep) ==
  IF parts = <<>> THEN <<>>
  ELSE IF Len(parts) = 1 THEN parts[1]
  ELSE parts[1] \o sep \o Join(Tail(parts), sep)

\* ------------------------------------------------- Buffer and JSON

\* Buffer.from(text, "utf8"): every character of the model is ASCII, so one
\* byte per character.
Utf8Bytes(text) == [i \in 1..Len(text) |-> CodeOf[text[i]]]

\* buffer.toString("utf8"); bytes outside the printable range decode to
\* ReplacementChar.
Utf8Text(bytes) == [i \in 1..Len(bytes) |-> CharOf(bytes[i])]

\* The base64url alphabet (RFC 4648, section 5), value 0 first.
Base64UrlAlphabet ==
  << "A", "B", "C", "D", "E", "F", "G", "H", "I", "J", "K", "L", "M", "N",
     "O", "P", "Q", "R", "S", "T", "U", "V", "W", "X", "Y", "Z", "a", "b",
     "c", "d", "e", "f", "g", "h", "i", "j", "k", "l", "m", "n", "o", "p",
     "q", "r", "s", "t", "u", "v", "w", "x", "y", "z", "0", "1", "2", "3",
     "4", "5", "6", "7", "8", "9", "-", "_" >>

\* buffer.toString("base64url"): three bytes make four characters, and the
\* last group is not padded.
Base64UrlEncode(bytes) ==
  LET n == Len(bytes)
      byte(i) == IF i <= n THEN bytes[i] ELSE 0
      sextet(j) ==
        LET base == 3 * ((j - 1) \div 4)
            r == (j - 1) % 4
        IN IF r = 0 THEN byte(base + 1) \div 4
           ELSE IF r = 1 THEN (byte(base + 1) % 4) * 16 + byte(base + 2) \div 16
           ELSE IF r = 2 THEN (byte(base + 2) % 16) * 4 + byte(base + 3) \div 64
           ELSE byte(base + 3) % 64
      count == 4 * (n \div 3)
               + (IF n % 3 = 1 THEN 2 ELSE IF n % 3 = 2 THEN 3 ELSE 0)
  IN [j \in 1..count |-> Base64UrlAlphabet[sextet(j) + 1]]

\* The value of one character for Node's base64 decoder, which reads the
\* base64 and the base64url alphabets alike; -1 for any other character.
Unbase64 ==
  [c \in AsciiChars |->
     IF c = "+" THEN 62
     ELSE IF c = "/" THEN 63
     ELSE IF \E n \in 1..64 : Base64UrlAlphabet[n] = c
          THEN (CHOOSE n \in 1..64 : Base64UrlAlphabet[n] = c) - 1
          ELSE -1]

\* The 6-bit values Node's decoder reads from a text: it stops at the first
\* "=" and skips every character that is in neither alphabet.
Sextets(text) ==
  LET stops == {i \in 1..Len(text) : text[i] = "="}
      stop == IF stops = {} THEN Len(text) + 1
              ELSE CHOOSE i \in stops : \A j \in stops : i <= j
      kept == SelectSeq(SubSeq(text, 1, stop - 1),
                       LAMBDA c : c \in AsciiChars /\ Unbase64[c] >= 0)
  IN [i \in 1..Len(kept) |-> Unbase64[kept[i]]]

\* Four 6-bit values make three bytes; a last group of two or three values
\* makes one or two bytes, and a lone last value makes none.
SextetsToBytes(s) ==
  LET n == Len(s)
      count == 3 * (n \div 4)
               + (IF n % 4 = 2 THEN 1 ELSE IF n % 4 = 3 THEN 2 ELSE 0)
      byte(k) ==
        LET base == 4 * ((k - 1) \div 3)
            r == (k - 1) % 3
        IN IF r = 0 THEN s[base + 1] * 4 + s[base + 2] \div 16
           ELSE IF r = 1 THEN (s[base + 2] % 16) * 16 + s[base + 3] \div 4
           ELSE (s[base + 3] % 4) * 64 + s[base + 4]
  IN [k \in 1..count |-> byte(k)]

\* A string written between quotes as it is, nothing escaped.
JsonUnescaped(text) == text

\* JSON.stringify of a string: quoted, with " and \ escaped.
RECURSIVE JsonEscape(_)
JsonEscape(text) ==
  IF text = <<>> THEN <<>>
  ELSE IF Head(text) \in {"\"", "\\"}
       THEN <<"\\", Head(text)>> \o JsonEscape(Tail(text))
       ELSE <<Head(text)>> \o JsonEscape(Tail(text))

JsonQuote(text) == <<"\"">> \o JsonEscape(text) \o <<"\"">>

\* The names of the six SourceRef fields, in the order the object literals of
\* the program list them.
Field ==
  [srcAccount |-> <<"s", "r", "c", "A", "c", "c", "o", "u", "n", "t">>,
   srcCalendar |-> <<"s", "r", "c", "C", "a", "l", "e", "n", "d", "a", "r">>,
   eventId |-> <<"e", "v", "e", "n", "t", "I", "d">>,
   start |-> <<"s", "t", "a", "r", "t">>,
   end |-> <<"e", "n", "d">>,
   title |-> <<"t", "i", "t", "l", "e">>]

\* JSON.stringify(source) for a SourceRef: its fields in insertion order.
JsonStringify(source) ==
  LET member(name, value) == JsonQuote(name) \o <<":">> \o JsonQuote(value) IN
  <<"{">>
  \o Join(<< member(Field.srcAccount, source.srcAccount),
             member(Field.srcCalendar, source.srcCalendar),
             member(Field.eventId, source.eventId),
             member(Field.start, source.start),
             member(Field.end, source.end),
             member(Field.title, source.title) >>, <<",">>)
  \o <<"}">>

\* JSON.parse, for the JSON texts the model can hold: an object whose members
\* are strings or unsigned integers, with optional spaces between the tokens
\* and the escapes \" \\ \/ in strings.  Every other text is a SyntaxError
\* (ok = FALSE); a text that is valid JSON of another shape cannot decode to a
\* SourceRef either.
JsonFail == [ok |-> FALSE]

RECURSIVE SkipSpaces(_, _)
SkipSpaces(t, i) == IF i <= Len(t) /\ t[i] = " " THEN SkipSpaces(t, i + 1) ELSE i

\* The string literal whose opening quote is at i - 1.
RECURSIVE ScanString(_, _, _)
ScanString(t, i, acc) ==
  IF i > Len(t) THEN JsonFail
  ELSE IF t[i] = "\"" THEN [ok |-> TRUE, val |-> acc, next |-> i + 1]
  ELSE IF t[i] = "\\" THEN
    IF i + 1 <= Len(t) /\ t[i + 1] \in {"\"", "\\", "/"}
    THEN ScanString(t, i + 2, Append(acc, t[i + 1]))
    ELSE JsonFail
  ELSE ScanString(t, i + 1, Append(acc, t[i]))

Digits == {"0", "1", "2", "3", "4", "5", "6", "7", "8", "9"}

RECURSIVE ScanDigits(_, _)
ScanDigits(t, i) == IF i <= Len(t) /\ t[i] \in Digits THEN ScanDigits(t, i + 1) ELSE i

\* A string literal's value as a member's value.
StringValue(s) ==
  IF s.ok THEN [ok |-> TRUE, type |-> "string", val |-> s.val, next |-> s.next]
  ELSE JsonFail

\* The number whose first digit is at i and that ends before j.
NumberValue(t, i, j) ==
  [ok |-> TRUE, type |-> "number", val |-> SubSeq(t, i, j - 1), next |-> j]

\* A member's value at i: [ok, type, val, next].
ParseValue(t, i) ==
  IF i > Len(t) THEN JsonFail
  ELSE IF t[i] = "\"" THEN StringValue(ScanString(t, i + 1, <<>>))
  ELSE IF t[i] \in Digits THEN NumberValue(t, i, ScanDigits(t, i))
  ELSE JsonFail

\* obj with the member name set to value: a later member of the same name
\* replaces the earlier one.
PutMember(obj, name, value) ==
  [k \in DOMAIN obj \cup {name} |-> IF k = name THEN value ELSE obj[k]]

\* The members of an object from position i on, added to obj, up to the
\* closing brace, which must end the text.  The parser reads a member in
\* steps: its name, the colon, its value, and the comma or brace after it.
RECURSIVE ParseMembers(_, _, _)

MemberEnd(t, e, obj) ==
  IF e > Len(t) THEN JsonFail
  ELSE IF t[e] = "," THEN ParseMembers(t, e + 1, obj)
  ELSE IF t[e] = "}" /\ SkipSpaces(t, e + 1) > Len(t) THEN [ok |-> TRUE, obj |-> obj]
  ELSE JsonFail

MemberValue(t, name, v, obj) ==
  IF ~v.ok THEN JsonFail
  ELSE MemberEnd(t, SkipSpaces(t, v.next),
                 PutMember(obj, name, [type |-> v.type, val |-> v.val]))

MemberColon(t, name, c, obj) ==
  IF c > Len(t) \/ t[c] # ":" THEN JsonFail
  ELSE MemberValue(t, name, ParseValue(t, SkipSpaces(t, c + 1)), obj)

MemberName(t, key, obj) ==
  IF ~key.ok THEN JsonFail
  ELSE MemberColon(t, key.val, SkipSpaces(t, key.next), obj)

MemberAt(t, i, obj) ==
  IF i > Len(t) \/ t[i] # "\"" THEN JsonFail
  ELSE MemberName(t, ScanString(t, i + 1, <<>>), obj)

ParseMembers(t, i, obj) == MemberAt(t, SkipSpaces(t, i), obj)

EmptyObject == [k \in {} |-> JsonFail]

\* The object whose opening brace is before j.
ObjectFrom(text, j) ==
  IF j <= Len(text) /\ text[j] = "}"
  THEN IF SkipSpaces(text, j + 1) > Len(text)
       THEN [ok |-> TRUE, obj |-> EmptyObject]
       ELSE JsonFail
  ELSE MemberAt(text, j, EmptyObject)

JsonValueAt(text, i) ==
  IF i > Len(text) \/ text[i] # "{" THEN JsonFail
  ELSE ObjectFrom(text, SkipSpaces(text, i + 1))

JsonParse(text) == JsonValueAt(text, SkipSpaces(text, 1))

\* ------------------------------------------------------ metadata codec

METADATA_PREFIX == <<"S", "Y", "N", "C", "V", "1", ":">>

\* What decodeSourceRef returns for a description that carries no tag.
Null == [null |-> TRUE]

IsNull(x) == "null" \in DOMAIN x

encodeSourceRef(source) ==
  METADATA_PREFIX \o Base64UrlEncode(Utf8Bytes(JsonStringify(source)))

\* A check that passes every member that is present, whatever its type.
NotPresent(obj, name) == name \notin DOMAIN obj

\* typeof parsed[name] !== "string"
NotString(obj, name) == name \notin DOMAIN obj \/ obj[name].type # "string"

\* The check of the six fields and `return parsed as SourceRef`.  The result
\* keeps the six fields the program reads; an extra member of the JSON object
\* is never read.
AsSourceRef(obj) ==
  IF \/ NotString(obj, Field.srcAccount)
     \/ NotString(obj, Field.srcCalendar)
     \/ NotString(obj, Field.eventId)
     \/ NotString(obj, Field.start)
     \/ NotString(obj, Field.end)
     \/ NotString(obj, Field.title)
  THEN Null
  ELSE [srcAccount |-> obj[Field.srcAccount].val,
        srcCalendar |-> obj[Field.srcCalendar].val,
        eventId |-> obj[Field.eventId].val,
        start |-> obj[Field.start].val,
        end |-> obj[Field.end].val,
        title |-> obj[Field.title].val]

\* The try block: a SyntaxError of JSON.parse is caught and gives null.
DecodeParsed(parsed) == IF ~parsed.ok THEN Null ELSE AsSourceRef(parsed.obj)

\* The text after the prefix, trimmed.
DecodeEncoded(encoded) ==
  IF encoded = <<>> THEN Null
  ELSE DecodeParsed(JsonParse(Utf8Text(SextetsToBytes(Sextets(encoded)))))

\* A decoder that accepts the tag at offset 0 only.
DecodeAtStart(description, index) ==
  IF index # 0 THEN Null
  ELSE DecodeEncoded(Trim(Slice(description, Len(METADATA_PREFIX))))

\* index is description.indexOf(METADATA_PREFIX).
DecodeAt(description, index) ==
  IF index < 0 THEN Null
  ELSE DecodeEncoded(Trim(Slice(description, index + Len(METADATA_PREFIX))))

\* The SourceRef of a description, or Null.
decodeSourceRef(description) ==
  IF Falsy(description) THEN Null
  ELSE DecodeAt(description, IndexOf(description, METADATA_PREFIX))

\* A key that also carries the title.
holdKeyWithTitle(source) ==
  Join(<<source.srcAccount, source.srcCalendar, source.eventId,
         source.start, source.end, source.title>>, <<":", ":">>)

holdKey(source) ==
  Join(<<source.srcAccount, source.srcCalendar, source.eventId,
         source.start, source.end>>, <<":", ":">>)

\* ------------------------------------------------------------- events

(***************************************************************************)
(* A GogEvent is a record with the fields id, etag, updated, summary,      *)
(* description, status, visibility, transparency (texts or Undefined),     *)
(* start and end (records of dateTime and date) and reminders.  The        *)
(* timeZone of a GogEventTime is left out: no code of the program reads    *)
(* it.  An object-valued optional field that is not set is NoObject.       *)
(*                                                                         *)
(* Times are written in a one-digit miniature of ISO 8601: a date is one   *)
(* digit (the day), and an instant is <day>T<hour>Z.  The clock counts     *)
(* hours, where the program's counts milliseconds.                         *)
(***************************************************************************)
NoObject == [undefined |-> TRUE]


DigitValue(c) == CodeOf[c] - CodeOf["0"]

\* Whether Date.parse reads the text as a time (it returns NaN otherwise).
DateValid(value) ==
  \/ Len(value) = 1 /\ value[1] \in Digits
  \/ /\ Len(value) = 4
     /\ value[1] \in Digits
     /\ value[2] = "T"
     /\ value[3] \in Digits
     /\ value[4] = "Z"

\* A parse that keeps the day of a time and drops the hour.
DateParseDayOnly(value) == 24 * DigitValue(value[1])

\* Date.parse of a text it reads: a date alone is its midnight UTC.
DateParse(value) ==
  IF Len(value) = 1 THEN 24 * DigitValue(value[1])
  ELSE 24 * DigitValue(value[1]) + DigitValue(value[3])

\* parseIso throws "Invalid date value" when Date.parse returns NaN.
parseIsoThrows(value) == ~DateValid(value)

parseIso(value) == DateParse(value)

\* `${date}T00:00:00.000Z`
MidnightUtc(date) == date \o <<"T", "0", "Z">>

HasTimedRange(event) == ~Falsy(event.start.dateTime) /\ ~Falsy(event.end.dateTime)

HasAllDayRange(event) == ~Falsy(event.start.date) /\ ~Falsy(event.end.date)

\* The error eventRange throws for the event, or NoObject when it returns.
eventRangeError(event) ==
  IF HasTimedRange(event) THEN
    IF parseIsoThrows(event.start.dateTime)
    THEN [error |-> "Invalid date value", value |-> event.start.dateTime]
    ELSE IF parseIsoThrows(event.end.dateTime)
    THEN [error |-> "Invalid date value", value |-> event.end.dateTime]
    ELSE NoObject
  ELSE IF HasAllDayRange(event) THEN
    IF parseIsoThrows(MidnightUtc(event.start.date))
    THEN [error |-> "Invalid date value", value |-> MidnightUtc(event.start.date)]
    ELSE IF parseIsoThrows(MidnightUtc(event.end.date))
    THEN [error |-> "Invalid date value", value |-> MidnightUtc(event.end.date)]
    ELSE NoObject
  ELSE [error |-> "missing supported start/end fields", id |-> event.id]

\* The range eventRange returns when it does not throw.
eventRange(event) ==
  IF HasTimedRange(event)
  THEN [startMs |-> parseIso(event.start.dateTime),
        endMs |-> parseIso(event.end.dateTime)]
  ELSE [startMs |-> parseIso(MidnightUtc(event.start.date)),
        endMs |-> parseIso(MidnightUtc(event.end.date))]

\* The error isOverlap(a, b) throws (a's range is computed first), or NoObject.
isOverlapError(a, b) ==
  IF eventRangeError(a) # NoObject THEN eventRangeError(a) ELSE eventRangeError(b)

\* An overlap test over closed ranges: two events that touch overlap.
isOverlapClosed(a, b) ==
  LET x == eventRange(a)
      y == eventRange(b)
  IN x.startMs <= y.endMs /\ y.startMs <= x.endMs

isOverlap(a, b) ==
  LET x == eventRange(a)
      y == eventRange(b)
  IN x.startMs < y.endMs /\ y.startMs < x.endMs

\* An equivalence that leaves the summary out: a hold whose title was edited
\* by hand would pass for in sync.
isEquivalentButSummary(existing, desired) ==
  /\ existing.description = desired.description
  /\ existing.visibility = desired.visibility
  /\ existing.transparency = desired.transparency
  /\ existing.start.dateTime = desired.start.dateTime
  /\ existing.start.date = desired.start.date
  /\ existing.end.dateTime = desired.end.dateTime
  /\ existing.end.date = desired.end.date

isEquivalent(existing, desired) ==
  /\ existing.summary = desired.summary
  /\ existing.description = desired.description
  /\ existing.visibility = desired.visibility
  /\ existing.transparency = desired.transparency
  /\ existing.start.dateTime = desired.start.dateTime
  /\ existing.start.date = desired.start.date
  /\ existing.end.dateTime = desired.end.dateTime
  /\ existing.end.date = desired.end.date

\* What a hold has where the configuration or the event names nothing.
HoldDefaults ==
  [summary |-> <<"B", "u", "s", "y">>,
   visibility |-> <<"p", "r", "i", "v", "a", "t", "e">>,
   transparency |-> <<"b", "u", "s", "y">>]

\* The DesiredHold of one source event; holdSummary is config.hold?.summary.
desiredHoldFromSource(sourceAccount, sourceCalendar, sourceEvent, holdSummary) ==
  LET src == [srcAccount |-> sourceAccount,
              srcCalendar |-> sourceCalendar,
              eventId |-> sourceEvent.id,
              start |-> Coalesce(sourceEvent.start.dateTime,
                                 MidnightUtc(sourceEvent.start.date)),
              end |-> Coalesce(sourceEvent.end.dateTime,
                               MidnightUtc(sourceEvent.end.date)),
              title |-> Coalesce(sourceEvent.summary, <<>>)]
  IN [source |-> src,
      event |-> [id |-> <<"h", "o", "l", "d", "-">> \o sourceEvent.id,
                 etag |-> Undefined,
                 updated |-> Undefined,
                 summary |-> Coalesce(holdSummary, HoldDefaults.summary),
                 description |-> encodeSourceRef(src),
                 status |-> Undefined,
                 visibility |-> HoldDefaults.visibility,
                 transparency |-> HoldDefaults.transparency,
                 start |-> sourceEvent.start,
                 end |-> sourceEvent.end,
                 reminders |-> [useDefault |-> FALSE, overrides |-> <<>>]]]

\* ------------------------------------------------- the model's inputs

\* The most events the target calendar holds at the start.
MaxTarget == 2

\* The most desired holds one run is given.
MaxDesired == 2

\* The most runs of executePlan in one behaviour.
MaxRuns == 2

\* config.safety?.maxChangesPerRun ?? 100
DefaultMaxChanges == 100

TimedAt(instant) == [dateTime |-> instant, date |-> Undefined]
AllDayOn(date) == [dateTime |-> Undefined, date |-> date]

\* An event as a calendar lists it: the fields the backend reports or the
\* user set, and no reminders.
ListedEvent(id, summary, description, visibility, transparency, start, end) ==
  [id |-> id, etag |-> <<"E", "T">>, updated |-> Undefined, summary |-> summary,
   description |-> description, status |-> <<"c", "o", "n", "f", "i", "r", "m", "e", "d">>,
   visibility |-> visibility, transparency |-> transparency,
   start |-> start, end |-> end, reminders |-> NoObject]

\* The source calendar's events: `fresh` (day 1, 01:00 to 03:00), the same
\* event with its title edited, and `stale`, another event on day 2.
SourceFresh ==
  ListedEvent(<<"f">>, <<"x">>, Undefined, Undefined, Undefined,
              TimedAt(<<"1", "T", "1", "Z">>), TimedAt(<<"1", "T", "3", "Z">>))
SourceRetitled == [SourceFresh EXCEPT !.summary = <<"y">>]
SourceStale ==
  ListedEvent(<<"s">>, <<"o">>, Undefined, Undefined, Undefined,
              TimedAt(<<"2", "T", "1", "Z">>), TimedAt(<<"2", "T", "2", "Z">>))

SourceEvents == {SourceFresh, SourceRetitled, SourceStale}

\* The hold of an event of the one source of the mapping: account "a",
\* calendar "c", no hold summary configured.
DesiredOf(sourceEvent) ==
  desiredHoldFromSource(<<"a">>, <<"c">>, sourceEvent, Undefined)

\* The desiredHolds one run can be given: what collectDesiredHoldsInWindow
\* builds from the source events the sources list, at most MaxDesired of them
\* and each once, in any order.  `fresh` and its retitled copy are both listed
\* when two sources name the same calendar and the title changed in between.
DesiredInputs ==
  UNION { {d \in [1..n -> {DesiredOf(e) : e \in SourceEvents}] :
             \A i, j \in 1..n : i # j => d[i] # d[j]}
        : n \in 0..MaxDesired }

\* The ids of the target calendar's events, the first MaxTarget of these:
\* ids that differ in case, which localeCompare and the order of the code
\* units rank differently, and ids that both rank alike.
TargetIds == {<<(<<"a", "B", "c", "D">>)[i]>> : i \in 1..MaxTarget}

\* What a target event can be, but for its id: the hold of `fresh` as the
\* tool wrote it, the hold of `stale`, that hold with its summary edited by
\* hand, and an event of the user's own, all day on day 1.
HoldOf(id, sourceEvent) ==
  LET d == DesiredOf(sourceEvent).event IN
  ListedEvent(id, d.summary, d.description, d.visibility, d.transparency,
              d.start, d.end)

AllTargetEvents ==
  UNION { { HoldOf(id, SourceFresh),
            HoldOf(id, SourceStale),
            [HoldOf(id, SourceStale) EXCEPT !.summary = <<"N", "o">>],
            ListedEvent(id, <<"m">>, Undefined, Undefined, Undefined,
                        AllDayOn(<<"1">>), AllDayOn(<<"2">>)) }
        : id \in TargetIds }

\* The target calendars a behaviour can start from: at most MaxTarget events
\* with different ids.
TargetCalendars ==
  UNION { { {f[id] : id \in ids} :
            f \in {g \in [ids -> AllTargetEvents] : \A id \in ids : g[id].id = id} }
        : ids \in SUBSET TargetIds }

\* Every listing of a set of events: the backend lists a calendar in an
\* order of its own.
Listings(events) ==
  {l \in [1..Cardinality(events) -> events] :
     \A i, j \in 1..Cardinality(events) : i # j => l[i] # l[j]}

\* ------------------------------------------------------------- planner

\* decodeSourceRef of the descriptions the inputs hold, computed once; every
\* other description is decoded when it is met.
KnownDescriptions ==
  {e.description : e \in AllTargetEvents}
  \cup {DesiredOf(e).event.description : e \in SourceEvents}

DecodedDescriptions == [d \in KnownDescriptions |-> decodeSourceRef(d)]

Decoded(description) ==
  IF description \in KnownDescriptions
  THEN DecodedDescriptions[description]
  ELSE decodeSourceRef(description)

\* holdKey of the SourceRefs the inputs hold, computed once in the same way.
KnownSources == {DesiredOf(e).source : e \in SourceEvents}

KeysOfSources == [source \in KnownSources |-> holdKey(source)]

Keyed(source) ==
  IF source \in KnownSources THEN KeysOfSources[source] ELSE holdKey(source)

\* The collation weight of a character for String.prototype.localeCompare
\* (the root collation): a digit sorts before a letter, and a letter's case
\* counts only between ids that are otherwise equal.  Every other character
\* is ordered by its code, before the digits.
CollationWeight(c) ==
  LET code == CodeOf[c] IN
  IF c \in Digits THEN 1000 + code
  ELSE IF code >= CodeOf["A"] /\ code <= CodeOf["Z"] THEN 2000 + 2 * (code - CodeOf["A"])
  ELSE IF code >= CodeOf["a"] /\ code <= CodeOf["z"] THEN 2000 + 2 * (code - CodeOf["a"])
  ELSE code

IsUpper(c) == CodeOf[c] >= CodeOf["A"] /\ CodeOf[c] <= CodeOf["Z"]

\* The sign of a.localeCompare(b): -1, 0 or 1.
RECURSIVE ComparePrimary(_, _)
ComparePrimary(a, b) ==
  IF a = <<>> /\ b = <<>> THEN 0
  ELSE IF a = <<>> THEN -1
  ELSE IF b = <<>> THEN 1
  ELSE IF CollationWeight(Head(a)) < CollationWeight(Head(b)) THEN -1
  ELSE IF CollationWeight(Head(a)) > CollationWeight(Head(b)) THEN 1
  ELSE ComparePrimary(Tail(a), Tail(b))

RECURSIVE CompareCase(_, _)
CompareCase(a, b) ==
  IF a = <<>> \/ b = <<>> THEN 0
  ELSE IF IsUpper(Head(a)) = IsUpper(Head(b)) THEN CompareCase(Tail(a), Tail(b))
  ELSE IF IsUpper(Head(b)) THEN -1
  ELSE 1

localeCompare(a, b) ==
  IF ComparePrimary(a, b) # 0 THEN ComparePrimary(a, b) ELSE CompareCase(a, b)

\* events.sort((a, b) => a.id.localeCompare(b.id)): the sort is stable, so an
\* event goes after the events that do not compare greater.
RECURSIVE InsertById(_, _)
InsertById(sorted, event) ==
  IF sorted = <<>> THEN <<event>>
  ELSE IF localeCompare(Head(sorted).id, event.id) <= 0
       THEN <<Head(sorted)>> \o InsertById(Tail(sorted), event)
       ELSE <<event>> \o sorted

RECURSIVE SortById(_)
SortById(events) ==
  IF events = <<>> THEN <<>>
  ELSE InsertById(SortById(SubSeq(events, 1, Len(events) - 1)), events[Len(events)])

\* [...keys].sort(): the keys of a map in ascending code-unit order.
RECURSIVE SortKeys(_)
SortKeys(keys) ==
  IF keys = {} THEN <<>>
  ELSE LET least == CHOOSE k \in keys : \A other \in keys \ {k} : StrLess(k, other)
       IN <<least>> \o SortKeys(keys \ {least})

\* The elements of a sequence whose flag is set.
RECURSIVE FilterBy(_, _)
FilterBy(events, flags) ==
  IF events = <<>> THEN <<>>
  ELSE (IF Head(flags) THEN <<Head(events)>> ELSE <<>>)
       \o FilterBy(Tail(events), Tail(flags))

\* if (decodeSourceRef(event.description)), for each event in turn.
ManagedFlags(targetEvents) ==
  [i \in 1..Len(targetEvents) |-> ~IsNull(Decoded(targetEvents[i].description))]

SplitBy(targetEvents, flags) ==
  [managed |-> FilterBy(targetEvents, flags),
   unmanaged |-> FilterBy(targetEvents, [i \in 1..Len(flags) |-> ~flags[i]])]

splitManaged(targetEvents) == SplitBy(targetEvents, ManagedFlags(targetEvents))

\* holdKey(decodeSourceRef(event.description)) for each managed event in turn.
ManagedKeysOf(sorted) ==
  [i \in 1..Len(sorted) |-> Keyed(Decoded(sorted[i].description))]

\* The map from each key to the list of the events with that key, in the
\* order of `sorted`.
GroupByKey(sorted, keys) ==
  [k \in {keys[i] : i \in 1..Len(keys)} |->
     FilterBy(sorted, [i \in 1..Len(keys) |-> keys[i] = k])]

GroupSorted(sorted) == GroupByKey(sorted, ManagedKeysOf(sorted))

\* managedByKey: the managed events, sorted by id, grouped by their key.
managedByKey(managed) == GroupSorted(SortById(managed))

\* A map that keeps the first hold set for a key.
FirstWithKey(desiredHolds, keys, key) ==
  desiredHolds[CHOOSE i \in 1..Len(keys) :
                 keys[i] = key /\ \A j \in 1..Len(keys) : keys[j] = key => i <= j]

\* The hold a map built by set(key, hold) for each hold in turn has for a
\* key: the last one set.
LastWithKey(desiredHolds, keys, key) ==
  desiredHolds[CHOOSE i \in 1..Len(keys) :
                 keys[i] = key /\ \A j \in 1..Len(keys) : keys[j] = key => j <= i]

IndexByKey(desiredHolds, keys) ==
  [k \in {keys[i] : i \in 1..Len(keys)} |-> LastWithKey(desiredHolds, keys, k)]

\* desiredByKey
desiredByKey(desiredHolds) ==
  IndexByKey(desiredHolds,
             [i \in 1..Len(desiredHolds) |-> Keyed(desiredHolds[i].source)])

\* map.get(key) ?? []
GetList(map, key) == IF key \in DOMAIN map THEN map[key] ELSE <<>>

\* An exception in flight: what a throwing call yields in place of a value.
Threw(x) == "threw" \in DOMAIN x

\* The Store's first state.
InitialState == [actions |-> <<>>, changes |-> 0, capped |-> FALSE]

\* unmanaged.find((candidate) => isOverlap(candidate, desired.event)): the
\* first overlapping event, NoObject (undefined) when there is none, or the
\* exception of the first isOverlap that throws.
RECURSIVE FindBlocker(_, _)

FindFrom(unmanaged, desiredEvent, error) ==
  IF error # NoObject THEN [threw |-> error]
  ELSE IF isOverlap(Head(unmanaged), desiredEvent) THEN Head(unmanaged)
  ELSE FindBlocker(Tail(unmanaged), desiredEvent)

FindBlocker(unmanaged, desiredEvent) ==
  IF unmanaged = <<>> THEN NoObject
  ELSE FindFrom(unmanaged, desiredEvent, isOverlapError(Head(unmanaged), desiredEvent))

\* A blocker looked for under either policy.
BlockerOfAnyPolicy(desired, unmanaged, overlapPolicy) ==
  FindBlocker(unmanaged, desired.event)

\* The blocker of a desired hold: looked for under the policy "skip" only.
BlockerOf(desired, unmanaged, overlapPolicy) ==
  IF overlapPolicy = "skip" THEN FindBlocker(unmanaged, desired.event) ELSE NoObject

\* A planner that clears the way for a blocked hold by deleting its blocker:
\* what "unmanaged events are only read" rules out.
PlanMissingClearing(state, desired, blocker, maxChangesPerRun) ==
  IF Threw(blocker) THEN blocker
  ELSE IF blocker # NoObject THEN
    [state EXCEPT !.actions = Append(@, [type |-> "delete", existing |-> blocker])]
  ELSE IF state.changes >= maxChangesPerRun THEN [state EXCEPT !.capped = TRUE]
  ELSE [state EXCEPT
          !.actions = Append(@, [type |-> "create", desired |-> desired]),
          !.changes = @ + 1]

\* A desired key with no managed event: skip_overlap, capped, or create.
PlanMissing(state, desired, blocker, maxChangesPerRun) ==
  IF Threw(blocker) THEN blocker
  ELSE IF blocker # NoObject THEN
    [state EXCEPT !.actions =
       Append(@, [type |-> "skip_overlap", desired |-> desired,
                  blockingEventId |-> blocker.id])]
  ELSE IF state.changes >= maxChangesPerRun THEN [state EXCEPT !.capped = TRUE]
  ELSE [state EXCEPT
          !.actions = Append(@, [type |-> "create", desired |-> desired]),
          !.changes = @ + 1]

\* A primary whose update the budget leaves out without a word: what
\* capped = true reports.
PlanPrimaryUnflagged(state, primary, desired, maxChangesPerRun) ==
  IF isEquivalent(primary, desired.event) THEN state
  ELSE IF state.changes >= maxChangesPerRun THEN state
  ELSE [state EXCEPT
          !.actions = Append(@, [type |-> "update", existing |-> primary,
                                 desired |-> desired]),
          !.changes = @ + 1]

\* The primary of a desired key: update it unless it is equivalent.
PlanPrimary(state, primary, desired, maxChangesPerRun) ==
  IF isEquivalent(primary, desired.event) THEN state
  ELSE IF state.changes >= maxChangesPerRun THEN [state EXCEPT !.capped = TRUE]
  ELSE [state EXCEPT
          !.actions = Append(@, [type |-> "update", existing |-> primary,
                                 desired |-> desired]),
          !.changes = @ + 1]

\* A delete that does not look at the budget: what the budget check of the
\* deleting loops is for.
PlanDeleteUnbudgeted(state, event, maxChangesPerRun) ==
  [state EXCEPT
     !.actions = Append(@, [type |-> "delete", existing |-> event]),
     !.changes = @ + 1]

\* One turn of a loop that deletes: capped, or delete.
PlanDelete(state, event, maxChangesPerRun) ==
  IF state.changes >= maxChangesPerRun THEN [state EXCEPT !.capped = TRUE]
  ELSE [state EXCEPT
          !.actions = Append(@, [type |-> "delete", existing |-> event]),
          !.changes = @ + 1]

\* for (const duplicate of duplicates)
RECURSIVE PlanDuplicates(_, _, _)
PlanDuplicates(state, duplicates, maxChangesPerRun) ==
  IF duplicates = <<>> THEN state
  ELSE PlanDuplicates(PlanDelete(state, Head(duplicates), maxChangesPerRun),
                      Tail(duplicates), maxChangesPerRun)

\* A loop over the whole bucket, the primary included, where the code loops
\* over the duplicates.
PlanDesiredKeyWholeBucket(state, desired, existingList, unmanaged, overlapPolicy, maxChangesPerRun) ==
  IF Len(existingList) = 0
  THEN PlanMissing(state, desired, BlockerOf(desired, unmanaged, overlapPolicy),
                   maxChangesPerRun)
  ELSE PlanDuplicates(
         PlanPrimary(state, Head(existingList), desired, maxChangesPerRun),
         existingList, maxChangesPerRun)

\* The body of the loop over the desired keys, for one key.
PlanDesiredKey(state, desired, existingList, unmanaged, overlapPolicy, maxChangesPerRun) ==
  IF Len(existingList) = 0
  THEN PlanMissing(state, desired, BlockerOf(desired, unmanaged, overlapPolicy),
                   maxChangesPerRun)
  ELSE PlanDuplicates(
         PlanPrimary(state, Head(existingList), desired, maxChangesPerRun),
         Tail(existingList), maxChangesPerRun)

\* for (const key of [...desiredByKey.keys()].sort()); an exception ends it.
RECURSIVE PlanDesiredKeys(_, _, _, _, _, _, _)
PlanDesiredKeys(state, keys, desiredMap, managedMap, unmanaged, overlapPolicy, maxChangesPerRun) ==
  IF keys = <<>> \/ Threw(state) THEN state
  ELSE PlanDesiredKeys(
         PlanDesiredKey(state, desiredMap[Head(keys)],
                        GetList(managedMap, Head(keys)), unmanaged,
                        overlapPolicy, maxChangesPerRun),
         Tail(keys), desiredMap, managedMap, unmanaged, overlapPolicy,
         maxChangesPerRun)

\* for (const stale of managedByKey.get(key) ?? [])
RECURSIVE PlanStale(_, _, _)
PlanStale(state, staleList, maxChangesPerRun) ==
  IF staleList = <<>> THEN state
  ELSE PlanStale(PlanDelete(state, Head(staleList), maxChangesPerRun),
                 Tail(staleList), maxChangesPerRun)

\* for (const key of [...managedByKey.keys()].sort()): the keys that are not
\* desired.  The loop is not reached when the first one threw.
RECURSIVE PlanStaleKeys(_, _, _, _, _)
PlanStaleKeys(state, keys, desiredMap, managedMap, maxChangesPerRun) ==
  IF keys = <<>> \/ Threw(state) THEN state
  ELSE PlanStaleKeys(
         IF Head(keys) \in DOMAIN desiredMap THEN state
         ELSE PlanStale(state, GetList(managedMap, Head(keys)), maxChangesPerRun),
         Tail(keys), desiredMap, managedMap, maxChangesPerRun)

\* A plan that reports capped as soon as it holds a mutation.
PlanResultCappedOnChange(final, desiredHolds, managed) ==
  IF Threw(final) THEN final
  ELSE [actions |-> final.actions,
        desiredCount |-> Len(desiredHolds),
        existingManagedCount |-> Len(managed),
        capped |-> final.capped \/ final.changes > 0]

\* The return statement, or the exception.
PlanResult(final, desiredHolds, managed) ==
  IF Threw(final) THEN final
  ELSE [actions |-> final.actions,
        desiredCount |-> Len(desiredHolds),
        existingManagedCount |-> Len(managed),
        capped |-> final.capped]

\* The two loops the other way round: the stale holds first, then the
\* desired keys.
PlanLoopsStaleFirst(desiredMap, managedMap, unmanaged, overlapPolicy, maxChangesPerRun) ==
  PlanDesiredKeys(
    PlanStaleKeys(InitialState, SortKeys(DOMAIN managedMap), desiredMap,
                  managedMap, maxChangesPerRun),
    SortKeys(DOMAIN desiredMap), desiredMap, managedMap, unmanaged,
    overlapPolicy, maxChangesPerRun)

\* The two loops, over the two maps.
PlanLoops(desiredMap, managedMap, unmanaged, overlapPolicy, maxChangesPerRun) ==
  PlanStaleKeys(
    PlanDesiredKeys(InitialState, SortKeys(DOMAIN desiredMap), desiredMap,
                    managedMap, unmanaged, overlapPolicy, maxChangesPerRun),
    SortKeys(DOMAIN managedMap), desiredMap, managedMap, maxChangesPerRun)

PlanSplit(desiredHolds, split, overlapPolicy, maxChangesPerRun) ==
  PlanResult(
    PlanLoops(desiredByKey(desiredHolds), managedByKey(split.managed),
              split.unmanaged, overlapPolicy, maxChangesPerRun),
    desiredHolds, split.managed)

\* The ReconcilePlan, or the exception planReconcile throws.
planReconcile(desiredHolds, targetEvents, overlapPolicy, maxChangesPerRun) ==
  PlanSplit(desiredHolds, splitManaged(targetEvents), overlapPolicy,
            maxChangesPerRun)

\* ------------------------------------------------- backend and driver

\* normalizeEventTimes: the --from and --to of a command; it throws for an
\* event with neither range.
normalizeEventTimesThrows(event) == ~HasTimedRange(event) /\ ~HasAllDayRange(event)

normalizeEventTimes(event) ==
  IF HasTimedRange(event)
  THEN [from |-> event.start.dateTime, to |-> event.end.dateTime, allDay |-> FALSE]
  ELSE [from |-> event.start.date, to |-> event.end.date, allDay |-> TRUE]

\* A create that loses the description of the command: the new event
\* carries no tag, and is no hold of any key.
CreatedEventUntagged(id, event) ==
  LET times == normalizeEventTimes(event) IN
  ListedEvent(id,
              Coalesce(event.summary, HoldDefaults.summary),
              <<>>,
              Coalesce(event.visibility, HoldDefaults.visibility),
              Coalesce(event.transparency, HoldDefaults.transparency),
              IF times.allDay THEN AllDayOn(times.from) ELSE TimedAt(times.from),
              IF times.allDay THEN AllDayOn(times.to) ELSE TimedAt(times.to))

\* The event the calendar holds after `gog calendar create` with the
\* arguments GogClient.createEvent passes; the backend names it.
CreatedEvent(id, event) ==
  LET times == normalizeEventTimes(event) IN
  ListedEvent(id,
              Coalesce(event.summary, HoldDefaults.summary),
              Coalesce(event.description, <<>>),
              Coalesce(event.visibility, HoldDefaults.visibility),
              Coalesce(event.transparency, HoldDefaults.transparency),
              IF times.allDay THEN AllDayOn(times.from) ELSE TimedAt(times.from),
              IF times.allDay THEN AllDayOn(times.to) ELSE TimedAt(times.to))

\* An update that loses the summary of the command: what a replanned run
\* would find drifted again.
UpdatedEventKeepingSummary(existing, event) ==
  LET times == normalizeEventTimes(event) IN
  [existing EXCEPT
     !.description = Coalesce(event.description, <<>>),
     !.visibility = Coalesce(event.visibility, HoldDefaults.visibility),
     !.transparency = Coalesce(event.transparency, HoldDefaults.transparency),
     !.start = IF times.allDay THEN AllDayOn(times.from) ELSE TimedAt(times.from),
     !.end = IF times.allDay THEN AllDayOn(times.to) ELSE TimedAt(times.to)]

\* The event the calendar holds after `gog calendar update` with the
\* arguments GogClient.updateEvent passes: the fields of the command replace
\* the existing event's.
UpdatedEvent(existing, event) ==
  LET times == normalizeEventTimes(event) IN
  [existing EXCEPT
     !.summary = Coalesce(event.summary, HoldDefaults.summary),
     !.description = Coalesce(event.description, <<>>),
     !.visibility = Coalesce(event.visibility, HoldDefaults.visibility),
     !.transparency = Coalesce(event.transparency, HoldDefaults.transparency),
     !.start = IF times.allDay THEN AllDayOn(times.from) ELSE TimedAt(times.from),
     !.end = IF times.allDay THEN AllDayOn(times.to) ELSE TimedAt(times.to)]

\* The id the backend gives a new event: the model takes the first unused
\* one.  The program never reads it but from a later listing, where the new
\* event is the only one of its key.
FreshIds(events) ==
  LET unused == ({<<d>> : d \in Digits} \ TargetIds) \ {e.id : e \in events}
  IN {id \in unused : \A other \in unused : localeCompare(id, other) <= 0}

VARIABLES
  calendar,          \* the target calendar: the set of its events
  desiredHolds,      \* the desired holds of the mapping
  overlapPolicy,     \* mapping.overlapPolicy
  maxChangesPerRun,  \* config.safety.maxChangesPerRun ?? 100
  dryRun,            \* executePlan's dryRun
  targetEvents,      \* executePlan: what listEvents returned
  plan,              \* executePlan: what planReconcile returned
  cursor,            \* executePlan: the index of the next action of the plan
  counters,          \* executePlan: the Store of counters
  result,            \* what the last executePlan returned
  run,               \* the number of runs of executePlan that have returned
  pc,                \* "idle", "applying" (in the loop of executePlan),
                     \* "awaiting" (a backend call), "failed"; or the function
                     \* a specification of one function applies
  codec,             \* a call of the metadata codec: its argument and results
  calls,             \* executePlan: the backend calls issued and completed
  watch              \* the command that runs executePlan: its locals, the
                     \* source calendar it polls and what it has logged

vars == <<calendar, desiredHolds, overlapPolicy, maxChangesPerRun, dryRun,
          targetEvents, plan, cursor, counters, result, run, pc, codec, calls,
          watch>>

inputs == <<desiredHolds, overlapPolicy, maxChangesPerRun, dryRun>>

ZeroCounters == [creates |-> 0, updates |-> 0, deletes |-> 0, skipped |-> 0]

Init ==
  /\ calendar \in TargetCalendars
  /\ desiredHolds \in DesiredInputs
  /\ overlapPolicy \in {"skip", "allow"}
  /\ maxChangesPerRun \in {1, 2, DefaultMaxChanges}
  /\ dryRun = FALSE
  /\ targetEvents = <<>>
  /\ plan = NoObject
  /\ cursor = 0
  /\ counters = ZeroCounters
  /\ result = NoObject
  /\ run = 0
  /\ pc = "idle"
  /\ codec = NoObject
  /\ calls = <<>>
  /\ watch = NoObject

\* executePlan up to its loop: list the target calendar and plan.  The
\* exception of planReconcile ends the run.
Plan ==
  /\ pc = "idle"
  /\ run < MaxRuns
  /\ \E listing \in Listings(calendar) :
       LET p == planReconcile(desiredHolds, listing, overlapPolicy, maxChangesPerRun)
       IN /\ targetEvents' = listing
          /\ plan' = p
          /\ pc' = IF Threw(p) THEN "failed" ELSE "applying"
  /\ cursor' = 1
  /\ counters' = ZeroCounters
  /\ UNCHANGED <<calendar, result, run, inputs,
               codec, watch, calls>>

InLoop == pc = "applying" /\ cursor <= Len(plan.actions)

action == plan.actions[cursor]

ApplySkip ==
  /\ InLoop
  /\ action.type = "skip_overlap"
  /\ counters' = [counters EXCEPT !.skipped = @ + 1]
  /\ cursor' = cursor + 1
  /\ UNCHANGED <<calendar, targetEvents, plan, result, run, pc, inputs, codec, watch, calls>>

ApplyCreate ==
  /\ InLoop
  /\ action.type = "create"
  /\ counters' = [counters EXCEPT !.creates = @ + 1]
  /\ IF dryRun
     THEN calendar' = calendar /\ pc' = pc
     ELSE IF normalizeEventTimesThrows(action.desired.event)
     THEN calendar' = calendar /\ pc' = "failed"
     ELSE /\ \E id \in FreshIds(calendar) :
               calendar' = calendar \cup {CreatedEvent(id, action.desired.event)}
          /\ pc' = pc
  /\ cursor' = cursor + 1
  /\ UNCHANGED <<targetEvents, plan, result, run, inputs,
               codec, watch, calls>>

ApplyUpdate ==
  /\ InLoop
  /\ action.type = "update"
  /\ counters' = [counters EXCEPT !.updates = @ + 1]
  /\ IF dryRun
     THEN calendar' = calendar /\ pc' = pc
     ELSE IF normalizeEventTimesThrows(action.desired.event)
     THEN calendar' = calendar /\ pc' = "failed"
     ELSE /\ calendar' = {IF e.id = action.existing.id
                          THEN UpdatedEvent(e, action.desired.event)
                          ELSE e : e \in calendar}
          /\ pc' = pc
  /\ cursor' = cursor + 1
  /\ UNCHANGED <<targetEvents, plan, result, run, inputs,
               codec, watch, calls>>

ApplyDelete ==
  /\ InLoop
  /\ action.type = "delete"
  /\ counters' = [counters EXCEPT !.deletes = @ + 1]
  /\ calendar' = IF dryRun THEN calendar
                 ELSE {e \in calendar : e.id # action.existing.id}
  /\ cursor' = cursor + 1
  /\ UNCHANGED <<targetEvents, plan, result, run, pc, inputs, codec, watch, calls>>

\* The loop has ended: return { ...counters.state, capped: plan.capped }.  The
\* locals of the call end with it.
LoopDone == pc = "applying" /\ cursor > Len(plan.actions)

Return ==
  /\ LoopDone
  /\ result' = [creates |-> counters.creates, updates |-> counters.updates,
                deletes |-> counters.deletes, skipped |-> counters.skipped,
                capped |-> plan.capped]
  /\ run' = run + 1
  /\ pc' = "idle"
  /\ targetEvents' = <<>>
  /\ plan' = NoObject
  /\ cursor' = 0
  /\ counters' = ZeroCounters
  /\ UNCHANGED <<calendar, inputs, codec, watch, calls>>

Next == Plan \/ ApplySkip \/ ApplyCreate \/ ApplyUpdate \/ ApplyDelete \/ Return

Spec == Init /\ [][Next]_vars

\* ------------------------------------- executePlan's loop, call by call

\* Spec takes a backend call as one step.  Here the call of an action is two
\* steps, its issue and its completion, and calls is the log of both.

\* The loop of executePlan is about to start on the plan of a listing, with a
\* budget for more than one call.  reconcile passes
\* options.dryRun || Boolean(config.safety?.dryRun), status passes true: the
\* run is no dry run, or it is one in one of the three ways.
ApplyInit ==
  /\ calendar \in TargetCalendars
  /\ desiredHolds \in DesiredInputs
  /\ overlapPolicy \in {"skip", "allow"}
  /\ maxChangesPerRun \in {2, DefaultMaxChanges}
  /\ \E way \in {"none", "status", "flag", "config"} :
       /\ watch = [command |-> IF way = "status" THEN "status" ELSE "reconcile",
                   dryRunFlag |-> way = "flag",                       \* --dry-run
                   safetyDryRun |-> IF way = "config" THEN "true"     \* safety.dryRun,
                                                      ELSE "undefined"]  \* as JSON
       /\ dryRun = IF watch.command = "status" THEN TRUE
                   ELSE watch.dryRunFlag \/ watch.safetyDryRun = "true"
  /\ targetEvents \in Listings(calendar)
  /\ plan = planReconcile(desiredHolds, targetEvents, overlapPolicy, maxChangesPerRun)
  /\ cursor = 1
  /\ counters = ZeroCounters
  /\ result = NoObject
  /\ run = 0
  /\ pc = "applying"
  /\ codec = NoObject
  /\ calls = <<>>

\* A loop that issues the call of an action and goes on to the next action
\* without awaiting it.
IssueUnawaited ==
  /\ InLoop
  /\ action.type \in {"create", "update", "delete"}
  /\ counters' = [counters EXCEPT
                    !.creates = IF action.type = "create" THEN @ + 1 ELSE @,
                    !.updates = IF action.type = "update" THEN @ + 1 ELSE @,
                    !.deletes = IF action.type = "delete" THEN @ + 1 ELSE @]
  /\ calls' = Append(calls, [op |-> "issue", index |-> cursor])
  /\ cursor' = cursor + 1
  /\ UNCHANGED <<calendar, targetEvents, plan, result, run, pc, inputs, codec, watch>>

\* A loop that issues the call of an action in a dry run too.
IssueInDryRun ==
  /\ InLoop
  /\ action.type \in {"create", "update", "delete"}
  /\ counters' = [counters EXCEPT
                    !.creates = IF action.type = "create" THEN @ + 1 ELSE @,
                    !.updates = IF action.type = "update" THEN @ + 1 ELSE @,
                    !.deletes = IF action.type = "delete" THEN @ + 1 ELSE @]
  /\ calls' = Append(calls, [op |-> "issue", index |-> cursor])
  /\ pc' = "awaiting"
  /\ UNCHANGED <<calendar, targetEvents, plan, cursor, result, run, inputs, codec, watch>>

\* The counter of a mutating action is raised and, unless the run is a dry
\* run, its backend call is issued: await client.createEvent, updateEvent or
\* deleteEvent, and the loop is suspended until the call completes.  In a
\* dry run the loop continues with the next action.
Issue ==
  /\ InLoop
  /\ action.type \in {"create", "update", "delete"}
  /\ counters' = [counters EXCEPT
                    !.creates = IF action.type = "create" THEN @ + 1 ELSE @,
                    !.updates = IF action.type = "update" THEN @ + 1 ELSE @,
                    !.deletes = IF action.type = "delete" THEN @ + 1 ELSE @]
  /\ IF dryRun
     THEN calls' = calls /\ cursor' = cursor + 1 /\ pc' = pc
     ELSE /\ calls' = Append(calls, [op |-> "issue", index |-> cursor])
          /\ cursor' = cursor
          /\ pc' = "awaiting"
  /\ UNCHANGED <<calendar, targetEvents, plan, result, run, inputs, codec, watch>>

\* The backend completes a call that is in flight: the calendar changes and
\* the loop resumes with the next action.
Complete ==
  /\ pc = "awaiting"
  /\ \E i \in {calls[p].index : p \in 1..Len(calls)} :
       /\ [op |-> "complete", index |-> i] \notin {calls[p] : p \in 1..Len(calls)}
       /\ calls' = Append(calls, [op |-> "complete", index |-> i])
       /\ IF plan.actions[i].type = "create"
          THEN \E id \in FreshIds(calendar) :
                 calendar' = calendar \cup {CreatedEvent(id, plan.actions[i].desired.event)}
          ELSE IF plan.actions[i].type = "update"
          THEN calendar' = {IF e.id = plan.actions[i].existing.id
                            THEN UpdatedEvent(e, plan.actions[i].desired.event)
                            ELSE e : e \in calendar}
          ELSE calendar' = {e \in calendar : e.id # plan.actions[i].existing.id}
  /\ cursor' = cursor + 1
  /\ pc' = "applying"
  /\ UNCHANGED <<targetEvents, plan, counters, result, run, inputs, codec, watch>>

ApplySpec == ApplyInit /\ [][ApplySkip \/ Issue \/ Complete]_vars

\* ------------------------------------------------- the codec on its own

\* The SourceRefs the codec is given: six strings, among them the empty
\* string, a quote and a backslash (which JSON escapes), a trailing space
\* (which decodeSourceRef trims from the encoded text only), the delimiter of
\* holdKey and the prefix of the tag itself.
CodecSources ==
  [srcAccount : {<<"a">>, <<>>},
   srcCalendar : {<<"c">>, <<"c", ":", ":", "d">>},
   eventId : {<<"f">>, <<"\"">>, <<"\\">>},
   start : {<<"1", "T", "1", "Z">>},
   end : {<<"1", "T", "3", "Z">>, <<>>},
   title : {<<"x">>, <<"x", " ">>, <<"a", "\"", "b", "\\", "c">>,
            METADATA_PREFIX, <<"{", "}">>}]

\* No run of executePlan: the calendar is empty and nothing is planned.
NoRun ==
  /\ calendar = {}
  /\ desiredHolds = <<>>
  /\ overlapPolicy = "allow"
  /\ maxChangesPerRun = DefaultMaxChanges
  /\ dryRun = FALSE
  /\ targetEvents = <<>>
  /\ plan = NoObject
  /\ cursor = 0
  /\ counters = ZeroCounters
  /\ result = NoObject
  /\ run = 0
  /\ calls = <<>>
  /\ watch = NoObject

\* The texts a caller writes before the tag: none, a note, a note that ends
\* with a space, the first letters of the prefix, the prefix itself, and a
\* note that holds the prefix.
PrependedTexts ==
  {<<>>, <<"n">>, <<"n", " ">>, <<"S", "Y", "N", "C">>, METADATA_PREFIX,
   <<"a">> \o METADATA_PREFIX \o <<"b", " ">>}

CodecInit ==
  /\ NoRun
  /\ pc = "codec"
  /\ \E source \in CodecSources, text \in PrependedTexts :
       codec = [stage |-> "source", source |-> source,
                description |-> Undefined, decoded |-> NoObject,
                prepended |-> text, located |-> NoObject]

runVars == <<calendar, desiredHolds, overlapPolicy, maxChangesPerRun, dryRun,
             targetEvents, plan, cursor, counters, result, run, pc, calls, watch>>

\* description = encodeSourceRef(source)
Encode ==
  /\ pc = "codec"
  /\ codec.stage = "source"
  /\ codec' = [codec EXCEPT !.stage = "encoded",
                            !.description = encodeSourceRef(codec.source)]
  /\ UNCHANGED runVars

\* decoded = decodeSourceRef(description)
Decode ==
  /\ pc = "codec"
  /\ codec.stage = "encoded"
  /\ codec' = [codec EXCEPT !.stage = "decoded",
                            !.decoded = decodeSourceRef(codec.description)]
  /\ UNCHANGED runVars

\* located = decodeSourceRef(prepended + description)
DecodePrepended ==
  /\ pc = "codec"
  /\ codec.stage = "decoded"
  /\ codec' = [codec EXCEPT !.stage = "located",
                            !.located = decodeSourceRef(codec.prepended \o codec.description)]
  /\ UNCHANGED runVars

CodecSpec == CodecInit /\ [][Encode \/ Decode \/ DecodePrepended]_vars

\* ------------------------------------------------------ holdKey on its own

\* Field texts of a SourceRef with and without colons: a colon inside a text
\* (as ISO times and calendar ids have), at either end of it, and the
\* delimiter of holdKey itself.
KeyTexts ==
  {<<>>, <<"x">>, <<":">>, <<"x", ":">>, <<":", "x">>, <<":", ":">>,
   <<"x", ":", "x">>}

\* Two SourceRefs a and b, their keys not yet computed.
KeyInit ==
  /\ NoRun
  /\ pc = "keys"
  /\ \E a \in [srcAccount : KeyTexts, srcCalendar : KeyTexts, eventId : {<<"f">>},
                start : {<<"1", "T", "1", "Z">>},
                end : {<<"1", "T", "3", "Z">>, <<>>}, title : {<<"x">>}],
        b \in [srcAccount : KeyTexts, srcCalendar : KeyTexts, eventId : {<<"f">>},
                start : {<<"1", "T", "1", "Z">>},
                end : {<<"1", "T", "3", "Z">>, <<>>}, title : {<<"x">>, <<"y">>}] :
       codec = [stage |-> "sources", a |-> a, b |-> b,
                keyA |-> Undefined, keyB |-> Undefined]

\* keyA = holdKey(a), keyB = holdKey(b)
ComputeKeys ==
  /\ pc = "keys"
  /\ codec.stage = "sources"
  /\ codec' = [codec EXCEPT !.stage = "keyed",
                            !.keyA = holdKey(codec.a),
                            !.keyB = holdKey(codec.b)]
  /\ UNCHANGED runVars

KeySpec == KeyInit /\ [][ComputeKeys]_vars

\* ------------------------------------- planReconcile on unusual inputs

\* Descriptions the tool did not write: none, the empty one, a note, the
\* prefix with nothing or with spaces after it, a payload that is no
\* base64url, one that is no JSON, an object without members, a SourceRef
\* without its title and a SourceRef whose title is a number.
ForeignDescriptions ==
  LET json == JsonStringify(DesiredOf(SourceFresh).source)
      Tagged(text) == METADATA_PREFIX \o Base64UrlEncode(Utf8Bytes(text))
  IN
  {Undefined, <<>>, <<"n">>, METADATA_PREFIX, METADATA_PREFIX \o <<" ", " ">>,
   METADATA_PREFIX \o <<"!">>, Tagged(<<"x">>), Tagged(<<"{", "}">>),
   Tagged(SubSeq(json, 1, Len(json) - 13) \o <<"}">>),
   Tagged(SubSeq(json, 1, Len(json) - 4) \o <<"1", "}">>)}

\* A GogEventTime with neither dateTime nor date.
NoTime == [dateTime |-> Undefined, date |-> Undefined]

\* What a listed event can be here, but for its id: an event of the user's
\* own, all day on day 1, with each of the foreign descriptions, and one all
\* day on day 2; the hold of
\* `fresh` and the hold of `stale`; and events without a complete range: one
\* with no times at all, one with a start dateTime and an end date, and a
\* hold of `fresh` that lost its end.
UnusualEventsWithId(id) ==
  {ListedEvent(id, <<"m">>, d, Undefined, Undefined, AllDayOn(<<"1">>), AllDayOn(<<"2">>))
     : d \in ForeignDescriptions}
  \cup {ListedEvent(id, <<"m">>, Undefined, Undefined, Undefined,
                    AllDayOn(<<"2">>), AllDayOn(<<"3">>)),
        HoldOf(id, SourceFresh),
        HoldOf(id, SourceStale),
        ListedEvent(id, <<"m">>, Undefined, Undefined, Undefined, NoTime, NoTime),
        ListedEvent(id, <<"m">>, <<"n">>, Undefined, Undefined,
                    TimedAt(<<"1", "T", "1", "Z">>), AllDayOn(<<"2">>)),
        [HoldOf(id, SourceFresh) EXCEPT !.end = NoTime]}

\* The desired holds given here: none, the hold of `fresh`, the hold of
\* `stale`, a hold of `stale` whose event has no end, the hold of `fresh`
\* after a title edit, and the hold of `fresh` with the hold of `stale`
\* after a title edit.
UnusualDesired ==
  {<<>>, <<DesiredOf(SourceFresh)>>, <<DesiredOf(SourceStale)>>,
   <<[DesiredOf(SourceStale) EXCEPT !.event.end = NoTime]>>,
   <<DesiredOf(SourceRetitled)>>,
   <<DesiredOf(SourceFresh), DesiredOf([SourceStale EXCEPT !.summary = <<"p">>])>>}

\* planReconcile is about to be called on a listing of at most two events.
InputInit ==
  /\ calendar = {}
  /\ desiredHolds \in UnusualDesired
  /\ overlapPolicy \in {"skip", "allow"}
  /\ maxChangesPerRun \in {1, DefaultMaxChanges}
  /\ dryRun = FALSE
  /\ targetEvents \in {<<>>}
       \cup {<<e>> : e \in UnusualEventsWithId(<<"a">>)}
       \cup {<<e, f>> : e \in UnusualEventsWithId(<<"a">>),
                        f \in UnusualEventsWithId(<<"B">>)}
  /\ plan = NoObject
  /\ cursor = 0
  /\ counters = ZeroCounters
  /\ result = NoObject
  /\ run = 0
  /\ pc = "listed"
  /\ codec = NoObject
  /\ calls = <<>>
  /\ watch = NoObject

\* decodeSourceRef of each listed description, and splitManaged of the
\* listing.
DecodeListed ==
  /\ pc = "listed"
  /\ codec' = [decoded |-> [i \in 1..Len(targetEvents) |->
                              decodeSourceRef(targetEvents[i].description)],
               split |-> splitManaged(targetEvents)]
  /\ pc' = "split"
  /\ UNCHANGED <<calendar, targetEvents, plan, cursor, counters, result, run, inputs,
               calls, watch>>

\* plan = planReconcile(...), or its exception.
PlanListed ==
  /\ pc = "split"
  /\ plan' = planReconcile(desiredHolds, targetEvents, overlapPolicy, maxChangesPerRun)
  /\ pc' = IF Threw(plan') THEN "failed" ELSE "planned"
  /\ UNCHANGED <<calendar, targetEvents, cursor, counters, result, run, inputs,
               codec, watch, calls>>

InputSpec == InputInit /\ [][DecodeListed \/ PlanListed]_vars

\* ---------------------------------------------------- isOverlap on its own

\* The ranges of the events compared, in hours since day 0: timed ranges
\* between 1T1Z, 1T2Z, 1T3Z and 2T0Z, those of no or negative length
\* included, and all-day ranges over days 1 to 3.
OverlapRanges ==
  [allDay : {FALSE}, startMs : {25, 26, 27, 48}, endMs : {25, 26, 27, 48}]
  \cup {[allDay |-> TRUE, startMs |-> 24, endMs |-> 48],
        [allDay |-> TRUE, startMs |-> 48, endMs |-> 72],
        [allDay |-> TRUE, startMs |-> 24, endMs |-> 72]}

\* The event a calendar lists for a range: a timed event carries its two
\* instants as <day>T<hour>Z, an all-day event its two dates.
EventOfRange(id, range) ==
  LET day(h) == <<CharOf(48 + (h \div 24))>>
      instant(h) == day(h) \o <<"T", CharOf(48 + (h % 24)), "Z">>
  IN IF range.allDay
     THEN ListedEvent(id, <<"m">>, Undefined, Undefined, Undefined,
                      AllDayOn(day(range.startMs)), AllDayOn(day(range.endMs)))
     ELSE ListedEvent(id, <<"m">>, Undefined, Undefined, Undefined,
                      TimedAt(instant(range.startMs)), TimedAt(instant(range.endMs)))

\* Two events a and b, each of a range or without any time, not yet compared.
OverlapInit ==
  /\ NoRun
  /\ pc = "overlap"
  /\ \E ra \in OverlapRanges \cup {NoObject}, rb \in OverlapRanges \cup {NoObject} :
       codec = [stage |-> "events", ra |-> ra, rb |-> rb,
                a |-> IF ra = NoObject
                      THEN ListedEvent(<<"a">>, <<"m">>, Undefined, Undefined,
                                       Undefined, NoTime, NoTime)
                      ELSE EventOfRange(<<"a">>, ra),
                b |-> IF rb = NoObject
                      THEN ListedEvent(<<"B">>, <<"m">>, Undefined, Undefined,
                                       Undefined, NoTime, NoTime)
                      ELSE EventOfRange(<<"B">>, rb),
                ab |-> NoObject, ba |-> NoObject]

\* ab = isOverlap(a, b) and ba = isOverlap(b, a): the value, or the
\* exception.
Overlap ==
  /\ pc = "overlap"
  /\ codec.stage = "events"
  /\ codec' = [codec EXCEPT
       !.stage = "compared",
       !.ab = IF isOverlapError(codec.a, codec.b) # NoObject
              THEN [threw |-> isOverlapError(codec.a, codec.b)]
              ELSE [value |-> isOverlap(codec.a, codec.b)],
       !.ba = IF isOverlapError(codec.b, codec.a) # NoObject
              THEN [threw |-> isOverlapError(codec.b, codec.a)]
              ELSE [value |-> isOverlap(codec.b, codec.a)]]
  /\ UNCHANGED runVars

OverlapSpec == OverlapInit /\ [][Overlap]_vars

\* ------------------------------------ the commands reconcile and watch

\* One mapping with one source, the default policy (skip) and a budget of 1
\* or the default.  reconcile runs executePlan once; watch takes
\* a snapshot of the source, runs executePlan unless --skip-initial, and then
\* polls: a snapshot per cycle, and executePlan when its signature is not the
\* stored one.  Every await is a step of its own: a signal, a change of the
\* source calendar or the failure of a backend call falls between two steps.

\* The most poll cycles of one watch.
MaxCycles == 2

\* The most changes of the source calendar in one behaviour.
MaxEdits == 1

\* What the source calendar lists: `fresh`, `fresh` with its title edited,
\* `fresh` and `stale`, `fresh` and `stale` cancelled.
Sources ==
  LET cancelled == <<"c", "a", "n", "c", "e", "l", "l", "e", "d">>
  IN { <<SourceFresh>>, <<SourceRetitled>>, <<SourceFresh, SourceStale>>,
       <<SourceFresh, [SourceStale EXCEPT !.status = cancelled]>> }

\* collectDesiredHoldsInWindow for a mapping of one source that lists
\* events, with allDayMode "ignore" and no pattern of safety.
RECURSIVE collectDesiredHoldsInWindow(_)
collectDesiredHoldsInWindow(events) ==
  IF events = <<>> THEN <<>>
  ELSE IF Head(events).status = <<"c", "a", "n", "c", "e", "l", "l", "e", "d">>
  THEN collectDesiredHoldsInWindow(Tail(events))
  ELSE IF ~Falsy(Head(events).start.date) /\ ~Falsy(Head(events).end.date)
  THEN collectDesiredHoldsInWindow(Tail(events))
  ELSE <<DesiredOf(Head(events))>> \o collectDesiredHoldsInWindow(Tail(events))

eventFingerprint(event) ==
  Join(<< event.id,
          Coalesce(event.status, <<>>),
          Coalesce(event.updated, <<>>),
          Coalesce(event.etag, <<>>),
          Coalesce(event.start.dateTime, Coalesce(event.start.date, <<>>)),
          Coalesce(event.end.dateTime, Coalesce(event.end.date, <<>>)),
          Coalesce(event.summary, <<>>) >>, <<"|">>)

\* signatures.sort(): texts in ascending code-unit order.
RECURSIVE SortTexts(_)
SortTexts(texts) ==
  IF texts = <<>> THEN <<>>
  ELSE LET i == CHOOSE k \in 1..Len(texts) :
                  \A j \in 1..Len(texts) : ~StrLess(texts[j], texts[k])
       IN <<texts[i]>>
          \o SortTexts(SubSeq(texts, 1, i - 1) \o SubSeq(texts, i + 1, Len(texts)))

\* sourceSnapshot of a source that lists events: the desired holds and their
\* signature, one line per hold, of the hold's event (not the source's).
sourceSnapshot(events) ==
  LET holds == collectDesiredHoldsInWindow(events)
  IN [signature |->
        Join(SortTexts([i \in 1..Len(holds) |->
                          holds[i].source.srcAccount \o <<"|">>
                          \o holds[i].source.srcCalendar \o <<"|">>
                          \o eventFingerprint(holds[i].event)]), <<"\n">>),
      desiredHolds |-> holds]

\* sourceSnapshot of each listing of Sources, computed once.
Snapshots == [source \in Sources |-> sourceSnapshot(source)]

\* A comparison that never finds two signatures equal.
NeverSame(nextSignature, previousSignature) == FALSE

\* nextSignature === previousSignature
SameSignature(nextSignature, previousSignature) == nextSignature = previousSignature

WatchInit ==
  /\ calendar \in {c \in TargetCalendars : Cardinality(c) <= 1}
  /\ desiredHolds = <<>>
  /\ overlapPolicy = "skip"
  /\ maxChangesPerRun \in {1, DefaultMaxChanges}
  /\ dryRun = FALSE
  /\ targetEvents = <<>>
  /\ plan = NoObject
  /\ cursor = 0
  /\ counters = ZeroCounters
  /\ result = NoObject
  /\ run = 0
  /\ codec = NoObject
  /\ calls = <<>>
  /\ \E command \in {"reconcile", "watch"}, skipInitial \in BOOLEAN, source \in Sources :
       /\ skipInitial => command = "watch"
       /\ pc = IF command = "watch" THEN "starting" ELSE "collecting"
       /\ watch = [command |-> command,            \* the command of the CLI
                   skipInitial |-> skipInitial,    \* --skip-initial
                   source |-> source,              \* what the source lists
                   edits |-> 0,                    \* the changes of source
                   signature |-> Undefined,        \* signatures.get(name)
                   nextSignature |-> Undefined,    \* locals of the cycle
                   previousSignature |-> Undefined,
                   handlers |-> FALSE,             \* process.on(...) ran
                   running |-> FALSE,
                   signalledAt |-> Undefined,      \* where a signal met pc
                   cycle |-> 0,                    \* the poll cycles begun
                   failures |-> 0,                 \* backend calls that failed
                   log |-> <<>>]                   \* console output

\* An exception leaves sourceSnapshot or executePlan, whose locals end with
\* it.  In the poll loop the catch logs it and the loop goes on to its sleep;
\* before the loop, and in reconcile, it reaches main().catch, which prints
\* it and exits.  w is the watch record when the exception is thrown.
Thrown(w) ==
  /\ pc' = IF w.handlers THEN "sleeping" ELSE "exited"
  /\ watch' = [w EXCEPT !.log = Append(@, IF w.handlers THEN "watch poll failed"
                                                          ELSE "error")]
  /\ targetEvents' = <<>>
  /\ plan' = NoObject
  /\ cursor' = 0
  /\ counters' = ZeroCounters

\* reconcile: executePlan is given no desiredHolds and collects them.
Collect ==
  /\ pc = "collecting"
  /\ \/ /\ Thrown([watch EXCEPT !.failures = @ + 1])
        /\ desiredHolds' = desiredHolds
     \/ /\ desiredHolds' = collectDesiredHoldsInWindow(watch.source)
        /\ pc' = "listing"
        /\ UNCHANGED <<targetEvents, plan, cursor, counters, watch>>
  /\ UNCHANGED <<calendar, overlapPolicy, maxChangesPerRun, dryRun, result, run,
                 codec, calls>>

\* watch, before the loop: the snapshot that sets the stored signature.  With
\* --skip-initial the handlers are installed next and the first cycle begins.
InitialSnapshot ==
  /\ pc = "starting"
  /\ \/ /\ Thrown([watch EXCEPT !.failures = @ + 1])
        /\ desiredHolds' = desiredHolds
     \/ /\ desiredHolds' = Snapshots[watch.source].desiredHolds
        /\ pc' = IF watch.skipInitial THEN "polling" ELSE "listing"
        /\ watch' = [watch EXCEPT
                       !.signature = Snapshots[watch.source].signature,
                       !.handlers = watch.skipInitial,
                       !.running = watch.skipInitial,
                       !.cycle = IF watch.skipInitial THEN 1 ELSE 0,
                       !.log = IF watch.skipInitial THEN Append(@, "watch started")
                                                    ELSE @]
        /\ UNCHANGED <<targetEvents, plan, cursor, counters>>
  /\ UNCHANGED <<calendar, overlapPolicy, maxChangesPerRun, dryRun, result, run,
                 codec, calls>>

\* executePlan up to its loop: the listing of the target calendar arrives,
\* or the call fails, and planReconcile plans.
Listed ==
  /\ pc = "listing"
  /\ \/ /\ Thrown([watch EXCEPT !.failures = @ + 1])
        /\ calls' = calls
     \/ \E listing \in Listings(calendar) :
          LET p == planReconcile(desiredHolds, listing, overlapPolicy, maxChangesPerRun)
          IN IF Threw(p)
             THEN Thrown(watch) /\ calls' = calls
             ELSE /\ targetEvents' = listing
                  /\ plan' = p
                  /\ cursor' = 1
                  /\ counters' = ZeroCounters
                  /\ calls' = <<>>
                  /\ pc' = "applying"
                  /\ watch' = watch
  /\ UNCHANGED <<calendar, result, run, inputs, codec>>

\* A loop that goes on to the next action when a backend call fails.
CallFailsSilently ==
  /\ pc = "awaiting"
  /\ calls' = Append(calls, [op |-> "fail", index |-> cursor])
  /\ watch' = [watch EXCEPT !.failures = @ + 1]
  /\ cursor' = cursor + 1
  /\ pc' = "applying"
  /\ UNCHANGED <<calendar, targetEvents, plan, counters, result, run, inputs, codec>>

\* The backend call in flight fails: the await throws out of executePlan.
CallFails ==
  /\ pc = "awaiting"
  /\ calls' = Append(calls, [op |-> "fail", index |-> cursor])
  /\ Thrown([watch EXCEPT !.failures = @ + 1])
  /\ UNCHANGED <<calendar, result, run, inputs, codec>>

\* executePlan returns and its caller logs the counters.  After the initial
\* pass of watch the handlers are installed and the first cycle begins.
Returned ==
  /\ LoopDone
  /\ result' = [creates |-> counters.creates, updates |-> counters.updates,
                deletes |-> counters.deletes, skipped |-> counters.skipped,
                capped |-> plan.capped]
  /\ run' = run + 1
  /\ targetEvents' = <<>>
  /\ plan' = NoObject
  /\ cursor' = 0
  /\ counters' = ZeroCounters
  /\ IF watch.command = "reconcile"
     THEN /\ pc' = "done"
          /\ watch' = [watch EXCEPT !.log = Append(@, "reconciled")]
     ELSE IF ~watch.handlers
     THEN /\ pc' = "polling"
          /\ watch' = [watch EXCEPT !.log = @ \o <<"initial", "watch started">>,
                                    !.handlers = TRUE,
                                    !.running = TRUE,
                                    !.cycle = 1]
     ELSE /\ pc' = "sleeping"
          /\ watch' = [watch EXCEPT !.log = Append(@, "changed")]
  /\ UNCHANGED <<calendar, inputs, codec, calls>>

\* A cycle that leaves the stored signature as it is when it calls
\* executePlan.
PollStoringNothing ==
  /\ pc = "polling"
  /\ \/ /\ Thrown([watch EXCEPT !.failures = @ + 1])
        /\ desiredHolds' = desiredHolds
     \/ /\ IF SameSignature(Snapshots[watch.source].signature, watch.signature)
           THEN /\ pc' = "sleeping"
                /\ watch' = [watch EXCEPT
                               !.nextSignature = Snapshots[watch.source].signature,
                               !.previousSignature = watch.signature]
                /\ desiredHolds' = desiredHolds
           ELSE /\ pc' = "listing"
                /\ watch' = [watch EXCEPT
                               !.nextSignature = Snapshots[watch.source].signature,
                               !.previousSignature = watch.signature]
                /\ desiredHolds' = Snapshots[watch.source].desiredHolds
        /\ UNCHANGED <<targetEvents, plan, cursor, counters>>
  /\ UNCHANGED <<calendar, overlapPolicy, maxChangesPerRun, dryRun, result, run,
                 codec, calls>>

\* The snapshot of a poll cycle arrives, or the listing of the source fails.
\* An equal signature ends the cycle; another one is stored and executePlan
\* is called with the holds of the snapshot.
Poll ==
  /\ pc = "polling"
  /\ \/ /\ Thrown([watch EXCEPT !.failures = @ + 1])
        /\ desiredHolds' = desiredHolds
     \/ /\ IF SameSignature(Snapshots[watch.source].signature, watch.signature)
           THEN /\ pc' = "sleeping"
                /\ watch' = [watch EXCEPT
                               !.nextSignature = Snapshots[watch.source].signature,
                               !.previousSignature = watch.signature]
                /\ desiredHolds' = desiredHolds
           ELSE /\ pc' = "listing"
                /\ watch' = [watch EXCEPT
                               !.nextSignature = Snapshots[watch.source].signature,
                               !.previousSignature = watch.signature,
                               !.signature = Snapshots[watch.source].signature]
                /\ desiredHolds' = Snapshots[watch.source].desiredHolds
        /\ UNCHANGED <<targetEvents, plan, cursor, counters>>
  /\ UNCHANGED <<calendar, overlapPolicy, maxChangesPerRun, dryRun, result, run,
                 codec, calls>>

\* The sleep of the loop ends and `while (running)` is tested: another cycle
\* begins, or the loop ends.
Wake ==
  /\ pc = "sleeping"
  /\ IF watch.running
     THEN /\ watch.cycle < MaxCycles
          /\ pc' = "polling"
          /\ watch' = [watch EXCEPT !.cycle = @ + 1,
                                    !.nextSignature = Undefined,
                                    !.previousSignature = Undefined]
     ELSE /\ pc' = "stopped"
          /\ watch' = [watch EXCEPT !.log = Append(@, "watch stopped")]
  /\ UNCHANGED <<calendar, targetEvents, plan, cursor, counters, result, run,
                 inputs, codec, calls>>

\* A handler that ends the loop where it stands.
SignalInterrupts ==
  /\ pc \notin {"done", "exited", "killed", "stopped"}
  /\ IF watch.handlers
     THEN /\ watch.running
          /\ watch' = [watch EXCEPT !.running = FALSE,
                                    !.signalledAt = pc,
                                    !.log = Append(@, "watch stopped")]
          /\ pc' = "stopped"
     ELSE /\ pc' = "killed"
          /\ watch' = watch
  /\ UNCHANGED <<calendar, targetEvents, plan, cursor, counters, result, run,
                 inputs, codec, calls>>

\* SIGINT or SIGTERM arrives.  The handlers of the loop clear `running` and
\* nothing else; before they are installed the signal ends the process.
Signal ==
  /\ pc \notin {"done", "exited", "killed", "stopped"}
  /\ IF watch.handlers
     THEN /\ watch.running
          /\ watch' = [watch EXCEPT !.running = FALSE, !.signalledAt = pc]
          /\ pc' = pc
     ELSE /\ pc' = "killed"
          /\ watch' = watch
  /\ UNCHANGED <<calendar, targetEvents, plan, cursor, counters, result, run,
                 inputs, codec, calls>>

\* The owner of the source calendar edits it.
SourceChanges ==
  /\ pc \notin {"done", "exited", "killed", "stopped"}
  /\ watch.edits < MaxEdits
  /\ \E source \in Sources \ {watch.source} :
       watch' = [watch EXCEPT !.source = source, !.edits = @ + 1]
  /\ UNCHANGED <<calendar, targetEvents, plan, cursor, counters, result, run, pc,
                 inputs, codec, calls>>

WatchSpec ==
  WatchInit /\ [][Collect \/ InitialSnapshot \/ Listed \/ ApplySkip \/ Issue
                  \/ Complete \/ CallFails \/ Returned \/ Poll \/ Wake \/ Signal
                  \/ SourceChanges]_vars

\* ------------------------------------- the poll loop over the mappings

\* The poll loop of watch for two mappings, one body of `for (const mapping
\* of mappings)` a step.  The signatures are those of the snapshots taken
\* before the loop; executePlan is taken whole: it throws, or it returns
\* after it has reconciled the target of the mapping with the holds of the
\* snapshot.  A line of the log names its cycle and its mapping.
MappingsInit ==
  /\ calendar = {}
  /\ desiredHolds = <<>>
  /\ overlapPolicy = "skip"
  /\ maxChangesPerRun = DefaultMaxChanges
  /\ dryRun = FALSE
  /\ targetEvents = <<>>
  /\ plan = NoObject
  /\ cursor = 0
  /\ counters = ZeroCounters
  /\ result = NoObject
  /\ run = 0
  /\ codec = NoObject
  /\ calls = <<>>
  /\ pc = "polling"
  /\ \E sources \in [{"m1", "m2"} -> {<<SourceFresh>>, <<SourceFresh, SourceStale>>}] :
       watch = [command |-> "watch",
                mappings |-> <<"m1", "m2">>,     \* selectMappings(...)
                at |-> 1,                        \* the mapping the loop is at
                sources |-> sources,             \* what each source lists
                edits |-> 0,
                signatures |-> [m \in {"m1", "m2"} |->
                                  Snapshots[sources[m]].signature],
                reconciled |-> [m \in {"m1", "m2"} |-> <<>>],   \* the holds each target has
                polled |-> <<>>,                 \* the mappings of this cycle
                handlers |-> TRUE,
                running |-> TRUE,
                signalledAt |-> Undefined,
                cycle |-> 1,
                failures |-> 0,
                log |-> <<>>]

\* A loop whose try encloses the for: an exception ends the cycle.
PollMappingCaughtOutside ==
  /\ pc = "polling"
  /\ \E outcome \in {"snapshot throws", "executePlan throws", "returns"} :
       LET name == watch.mappings[watch.at]
           snapshot == Snapshots[watch.sources[name]]
           same == SameSignature(snapshot.signature, watch.signatures[name])
           failed == [cycle |-> watch.cycle, mapping |-> name,
                      line |-> "watch poll failed"]
           last == watch.at = Len(watch.mappings)
       IN IF outcome = "snapshot throws" \/ (~same /\ outcome = "executePlan throws")
          THEN /\ watch' = [watch EXCEPT
                             !.failures = @ + 1,
                             !.log = Append(@, failed),
                             !.signatures[name] =
                               IF outcome = "snapshot throws" THEN @
                               ELSE snapshot.signature,
                             !.polled = Append(@, name),
                             !.at = Len(watch.mappings) + 1]
               /\ pc' = "sleeping"
          ELSE /\ watch' = [watch EXCEPT
                             !.signatures[name] = snapshot.signature,
                             !.reconciled[name] =
                               IF same THEN @ ELSE snapshot.desiredHolds,
                             !.log = IF same THEN @
                                     ELSE Append(@, [cycle |-> watch.cycle,
                                                     mapping |-> name,
                                                     line |-> "changed"]),
                             !.polled = Append(@, name),
                             !.at = @ + 1]
               /\ pc' = IF last THEN "sleeping" ELSE "polling"
  /\ UNCHANGED <<calendar, targetEvents, plan, cursor, counters, result, run,
                 inputs, codec, calls>>

\* The body of the for loop for one mapping: the snapshot (which can throw),
\* `continue` on the stored signature, else the signature is stored and
\* executePlan runs (and can throw); the catch of the body logs what was
\* thrown.  After the last mapping the loop sleeps.
PollMapping ==
  /\ pc = "polling"
  /\ \E outcome \in {"snapshot throws", "executePlan throws", "returns"} :
       LET name == watch.mappings[watch.at]
           snapshot == Snapshots[watch.sources[name]]
           same == SameSignature(snapshot.signature, watch.signatures[name])
           failed == [cycle |-> watch.cycle, mapping |-> name,
                      line |-> "watch poll failed"]
       IN IF outcome = "snapshot throws" \/ (~same /\ outcome = "executePlan throws")
          THEN watch' = [watch EXCEPT
                           !.failures = @ + 1,
                           !.log = Append(@, failed),
                           !.signatures[name] =
                             IF outcome = "snapshot throws" THEN @
                             ELSE snapshot.signature,
                           !.polled = Append(@, name),
                           !.at = @ + 1]
          ELSE watch' = [watch EXCEPT
                           !.signatures[name] = snapshot.signature,
                           !.reconciled[name] =
                             IF same THEN @ ELSE snapshot.desiredHolds,
                           !.log = IF same THEN @
                                   ELSE Append(@, [cycle |-> watch.cycle,
                                                   mapping |-> name,
                                                   line |-> "changed"]),
                           !.polled = Append(@, name),
                           !.at = @ + 1]
  /\ pc' = IF watch.at = Len(watch.mappings) THEN "sleeping" ELSE "polling"
  /\ UNCHANGED <<calendar, targetEvents, plan, cursor, counters, result, run,
                 inputs, codec, calls>>

\* The sleep ends and `while (running)` is tested: the for loop starts again
\* at the first mapping, or the loop ends.
NextCycle ==
  /\ pc = "sleeping"
  /\ IF watch.running
     THEN /\ watch.cycle < MaxCycles
          /\ pc' = "polling"
          /\ watch' = [watch EXCEPT !.cycle = @ + 1, !.at = 1, !.polled = <<>>]
     ELSE /\ pc' = "stopped"
          /\ watch' = [watch EXCEPT
                         !.log = Append(@, [cycle |-> watch.cycle, mapping |-> "",
                                            line |-> "watch stopped"])]
  /\ UNCHANGED <<calendar, targetEvents, plan, cursor, counters, result, run,
                 inputs, codec, calls>>

\* The owner of the source calendar of a mapping edits it.
SourceOfMappingChanges ==
  /\ pc \in {"polling", "sleeping"}
  /\ watch.edits < MaxEdits
  /\ \E name \in {"m1", "m2"} :
       \E source \in Sources \ {watch.sources[name]} :
         watch' = [watch EXCEPT !.sources[name] = source, !.edits = @ + 1]
  /\ UNCHANGED <<calendar, targetEvents, plan, cursor, counters, result, run, pc,
                 inputs, codec, calls>>

MappingsSpec ==
  MappingsInit /\ [][PollMapping \/ NextCycle \/ Signal \/ SourceOfMappingChanges]_vars

\* ------------------------------------------- backfill, then reconcile

\* The updateEvent calls of backfill, in the order of the listing of the
\* target.  holds are the DesiredHolds of the source events that pass its
\* filter, which is the filter of collectDesiredHoldsInWindow: the event of a
\* hold carries the start and end of its source event, and the source of a
\* hold is the SourceRef backfill builds for a candidate.  No pattern of
\* safety is configured, nor a hold summary.
RECURSIVE backfillAnyCandidate(_, _)
backfillAnyCandidate(holds, listed) ==
  IF listed = <<>> THEN <<>>
  ELSE LET target == Head(listed)
           key(event) == Coalesce(event.start.dateTime, event.start.date) \o <<"|">>
                         \o Coalesce(event.end.dateTime, event.end.date)
           candidates == SelectSeq(holds, LAMBDA h : key(h.event) = key(target))
           skipped ==
             \/ ~IsNull(Decoded(target.description))
             \/ Coalesce(target.summary, <<>>) # HoldDefaults.summary
             \/ Coalesce(target.visibility, <<"d", "e", "f", "a", "u", "l", "t">>)
                  # HoldDefaults.visibility
             \/ Coalesce(target.transparency, <<"o", "p", "a", "q", "u", "e">>)
                  # HoldDefaults.transparency
             \/ ("overrides" \in DOMAIN target.reminders
                 /\ Len(target.reminders.overrides) > 0)
             \/ Len(candidates) = 0
       IN (IF skipped THEN <<>>
           ELSE <<[eventId |-> target.id,
                   event |-> [target EXCEPT
                                !.description = encodeSourceRef(candidates[1].source),
                                !.visibility = HoldDefaults.visibility,
                                !.transparency = HoldDefaults.transparency,
                                !.reminders = [useDefault |-> FALSE,
                                               overrides |-> <<>>]]]>>)
          \o backfillAnyCandidate(holds, Tail(listed))

RECURSIVE backfill(_, _)
backfill(holds, listed) ==
  IF listed = <<>> THEN <<>>
  ELSE LET target == Head(listed)
           key(event) == Coalesce(event.start.dateTime, event.start.date) \o <<"|">>
                         \o Coalesce(event.end.dateTime, event.end.date)
           candidates == SelectSeq(holds, LAMBDA h : key(h.event) = key(target))
           skipped ==
             \/ ~IsNull(Decoded(target.description))
             \/ Coalesce(target.summary, <<>>) # HoldDefaults.summary
             \/ Coalesce(target.visibility, <<"d", "e", "f", "a", "u", "l", "t">>)
                  # HoldDefaults.visibility
             \/ Coalesce(target.transparency, <<"o", "p", "a", "q", "u", "e">>)
                  # HoldDefaults.transparency
             \/ ("overrides" \in DOMAIN target.reminders
                 /\ Len(target.reminders.overrides) > 0)
             \/ Len(candidates) # 1
       IN (IF skipped THEN <<>>
           ELSE <<[eventId |-> target.id,
                   event |-> [target EXCEPT
                                !.description = encodeSourceRef(candidates[1].source),
                                !.visibility = HoldDefaults.visibility,
                                !.transparency = HoldDefaults.transparency,
                                !.reminders = [useDefault |-> FALSE,
                                               overrides |-> <<>>]]]>>)
          \o backfill(holds, Tail(listed))

\* The backfill command is about to run for a mapping whose source lists
\* `fresh`, alone, with `stale`, with its retitled copy, or with another
\* event of the range of `fresh`.  The target holds at most two events: of
\* the shape of a hold and the range of `fresh` or of `stale`, the same with
\* the default visibility, with a reminder or with a summary of the user's,
\* and the managed hold of `fresh`.
BackfillInit ==
  /\ \E ids \in SUBSET {<<"a">>, <<"B">>} :
       \E f \in [ids -> {"fresh", "stale", "public", "reminder", "own", "managed"}] :
         calendar =
           { LET shaped == ListedEvent(id, HoldDefaults.summary, Undefined,
                                       HoldDefaults.visibility,
                                       HoldDefaults.transparency,
                                       SourceFresh.start, SourceFresh.end)
             IN CASE f[id] = "fresh" -> shaped
                  [] f[id] = "stale" -> [shaped EXCEPT !.start = SourceStale.start,
                                                       !.end = SourceStale.end]
                  [] f[id] = "public" -> [shaped EXCEPT !.visibility = Undefined]
                  [] f[id] = "reminder" ->
                       [shaped EXCEPT !.reminders =
                          [useDefault |-> FALSE, overrides |-> <<"popup">>]]
                  [] f[id] = "own" -> [shaped EXCEPT !.summary = <<"m">>]
                  [] f[id] = "managed" -> HoldOf(id, SourceFresh)
             : id \in ids }
  /\ desiredHolds = <<>>
  /\ overlapPolicy \in {"skip", "allow"}
  /\ maxChangesPerRun = DefaultMaxChanges
  /\ dryRun \in BOOLEAN
  /\ targetEvents = <<>>
  /\ plan = NoObject
  /\ cursor = 0
  /\ counters = ZeroCounters
  /\ result = NoObject
  /\ run = 0
  /\ codec = NoObject
  /\ calls = <<>>
  /\ pc = "backfill"
  /\ \E source \in {<<SourceFresh>>, <<SourceFresh, SourceStale>>,
                    <<SourceFresh, SourceRetitled>>,
                    <<SourceFresh, [SourceStale EXCEPT !.start = SourceFresh.start,
                                                       !.end = SourceFresh.end]>>} :
       watch = [command |-> "backfill",
                source |-> source,        \* what the source lists
                before |-> calendar,      \* the target as backfill finds it
                updated |-> 0]            \* the count backfill returns

\* backfill: the target is listed, and each event that qualifies is updated
\* in turn unless the run is a dry run.  A call can fail, and its exception
\* ends the command with the calls before it done.
Backfill ==
  /\ pc = "backfill"
  /\ \E listing \in Listings(calendar) :
       LET updates == backfill(collectDesiredHoldsInWindow(watch.source), listing)
       IN \E done \in 0..Len(updates) :
            /\ targetEvents' = listing
            /\ calendar' =
                 IF dryRun THEN calendar
                 ELSE {IF \E i \in 1..done : updates[i].eventId = e.id
                       THEN UpdatedEvent(e, (CHOOSE u \in {updates[i] : i \in 1..done} :
                                               u.eventId = e.id).event)
                       ELSE e : e \in calendar}
            /\ pc' = IF done < Len(updates) /\ ~dryRun THEN "failed" ELSE "backfilled"
            /\ watch' = [watch EXCEPT !.updated = IF dryRun THEN Len(updates)
                                                  ELSE IF done < Len(updates)
                                                  THEN done + 1 ELSE done]
  /\ UNCHANGED <<plan, cursor, counters, result, run, inputs, codec, calls>>

\* reconcile with the same source data: executePlan collects the desired
\* holds, lists the target and plans.
ReconcileAfterBackfill ==
  /\ pc \in {"backfilled", "failed"}
  /\ desiredHolds' = collectDesiredHoldsInWindow(watch.source)
  /\ \E listing \in Listings(calendar) :
       /\ targetEvents' = listing
       /\ plan' = planReconcile(desiredHolds', listing, overlapPolicy, maxChangesPerRun)
  /\ pc' = IF Threw(plan') THEN "exited" ELSE "planned"
  /\ UNCHANGED <<calendar, overlapPolicy, maxChangesPerRun, dryRun, cursor, counters,
                 result, run, codec, calls, watch>>

BackfillSpec == BackfillInit /\ [][Backfill \/ ReconcileAfterBackfill]_vars

\* ------------------------------------------- the guard of the commands

\* String.prototype.startsWith
StartsWith(text, prefix) ==
  Len(text) >= Len(prefix) /\ SubSeq(text, 1, Len(prefix)) = prefix

\* The command templates of GogClient.
DEFAULTS ==
  [listEventsCmd |->
     <<"g", "o", "g", " ", "c", "a", "l", "e", "n", "d", "a", "r", " ", "e",
       "v", "e", "n", "t", "s", " ", "{", "c", "a", "l", "e", "n", "d", "a",
       "r", "I", "d", "}", " ", "-", "-", "a", "c", "c", "o", "u", "n", "t",
       " ", "{", "a", "c", "c", "o", "u", "n", "t", "}", " ", "-", "-", "f",
       "r", "o", "m", " ", "{", "t", "i", "m", "e", "M", "i", "n", "}", " ",
       "-", "-", "t", "o", " ", "{", "t", "i", "m", "e", "M", "a", "x", "}",
       " ", "-", "-", "j", "s", "o", "n">>,
   createEventCmd |->
     <<"g", "o", "g", " ", "c", "a", "l", "e", "n", "d", "a", "r", " ", "c",
       "r", "e", "a", "t", "e", " ", "{", "c", "a", "l", "e", "n", "d", "a",
       "r", "I", "d", "}", " ", "-", "-", "a", "c", "c", "o", "u", "n", "t",
       " ", "{", "a", "c", "c", "o", "u", "n", "t", "}", " ", "-", "-", "s",
       "u", "m", "m", "a", "r", "y", " ", "{", "s", "u", "m", "m", "a", "r",
       "y", "}", " ", "-", "-", "f", "r", "o", "m", " ", "{", "f", "r", "o",
       "m", "}", " ", "-", "-", "t", "o", " ", "{", "t", "o", "}", " ", "-",
       "-", "d", "e", "s", "c", "r", "i", "p", "t", "i", "o", "n", " ", "{",
       "d", "e", "s", "c", "r", "i", "p", "t", "i", "o", "n", "}", " ", "-",
       "-", "v", "i", "s", "i", "b", "i", "l", "i", "t", "y", " ", "{", "v",
       "i", "s", "i", "b", "i", "l", "i", "t", "y", "}", " ", "-", "-", "t",
       "r", "a", "n", "s", "p", "a", "r", "e", "n", "c", "y", " ", "{", "t",
       "r", "a", "n", "s", "p", "a", "r", "e", "n", "c", "y", "}", " ", "-",
       "-", "s", "e", "n", "d", "-", "u", "p", "d", "a", "t", "e", "s", " ",
       "n", "o", "n", "e", " ", "{", "a", "l", "l", "D", "a", "y", "F", "l",
       "a", "g", "}", " ", "-", "-", "j", "s", "o", "n">>,
   updateEventCmd |->
     <<"g", "o", "g", " ", "c", "a", "l", "e", "n", "d", "a", "r", " ", "u",
       "p", "d", "a", "t", "e", " ", "{", "c", "a", "l", "e", "n", "d", "a",
       "r", "I", "d", "}", " ", "{", "e", "v", "e", "n", "t", "I", "d", "}",
       " ", "-", "-", "a", "c", "c", "o", "u", "n", "t", " ", "{", "a", "c",
       "c", "o", "u", "n", "t", "}", " ", "-", "-", "s", "u", "m", "m", "a",
       "r", "y", " ", "{", "s", "u", "m", "m", "a", "r", "y", "}", " ", "-",
       "-", "f", "r", "o", "m", " ", "{", "f", "r", "o", "m", "}", " ", "-",
       "-", "t", "o", " ", "{", "t", "o", "}", " ", "-", "-", "d", "e", "s",
       "c", "r", "i", "p", "t", "i", "o", "n", " ", "{", "d", "e", "s", "c",
       "r", "i", "p", "t", "i", "o", "n", "}", " ", "-", "-", "v", "i", "s",
       "i", "b", "i", "l", "i", "t", "y", " ", "{", "v", "i", "s", "i", "b",
       "i", "l", "i", "t", "y", "}", " ", "-", "-", "t", "r", "a", "n", "s",
       "p", "a", "r", "e", "n", "c", "y", " ", "{", "t", "r", "a", "n", "s",
       "p", "a", "r", "e", "n", "c", "y", "}", " ", "{", "a", "l", "l", "D",
       "a", "y", "F", "l", "a", "g", "}", " ", "-", "-", "j", "s", "o", "n">>,
   deleteEventCmd |->
     <<"g", "o", "g", " ", "c", "a", "l", "e", "n", "d", "a", "r", " ", "d",
       "e", "l", "e", "t", "e", " ", "{", "c", "a", "l", "e", "n", "d", "a",
       "r", "I", "d", "}", " ", "{", "e", "v", "e", "n", "t", "I", "d", "}",
       " ", "-", "-", "a", "c", "c", "o", "u", "n", "t", " ", "{", "a", "c",
       "c", "o", "u", "n", "t", "}", " ", "-", "-", "f", "o", "r", "c", "e",
       " ", "-", "-", "j", "s", "o", "n">>]

\* A template that takes an override without asking for allowCustomCommands.
templateUnguarded(gog, name) ==
  IF Falsy(gog[name]) THEN [command |-> DEFAULTS[name]]
  ELSE IF ~StartsWith(Trim(gog[name]), <<"g", "o", "g", " ">>)
  THEN [threw |-> "must start with 'gog '"]
  ELSE [command |-> gog[name]]

\* GogClient.template(name) for config.gog: the template of the command the
\* operation hands to runJson, which spawns it, or the exception thrown.
\* allowCustomCommands is named by its JSON text.
template(gog, name) ==
  IF Falsy(gog[name]) THEN [command |-> DEFAULTS[name]]
  ELSE IF gog.allowCustomCommands # "true"
  THEN [threw |-> "override requires gog.allowCustomCommands=true"]
  ELSE IF ~StartsWith(Trim(gog[name]), <<"g", "o", "g", " ">>)
  THEN [threw |-> "must start with 'gog '"]
  ELSE [command |-> gog[name]]

\* validateConfig of a config whose mappings, if any, are valid and which
\* sets nothing else but gog: the set of its errors, each the key it names
\* and the rest of the message.
validateConfig(config) ==
  IF config.mappings = <<>>
  THEN {[key |-> "mappings", error |-> "config.mappings must be a non-empty array"]}
  ELSE {[key |-> key, error |-> "requires gog.allowCustomCommands=true"] :
          key \in {k \in DOMAIN DEFAULTS :
                     config.gog.allowCustomCommands # "true" /\ ~Falsy(config.gog[k])}}
       \cup {[key |-> key, error |-> "must start with 'gog '"] :
          key \in {k \in DOMAIN DEFAULTS :
                     /\ config.gog.allowCustomCommands = "true"
                     /\ ~Falsy(config.gog[k])
                     /\ ~StartsWith(Trim(config.gog[k]), <<"g", "o", "g", " ">>)}}

\* A config: no mapping or one, allowCustomCommands absent, false, true or
\* the string "true", and for each command no override, an empty one, one
\* that starts with gog, the same after a space, or another program.
GuardInit ==
  /\ NoRun
  /\ pc = "guard"
  /\ \E mappings \in {<<>>, <<"m1">>},
        gog \in [allowCustomCommands : {"undefined", "false", "true", "\"true\""},
                 listEventsCmd : {Undefined, <<>>, <<"g", "o", "g", " ", "l">>,
                                  <<" ", "g", "o", "g", " ", "l">>,
                                  <<"c", "u", "r", "l", " ", "x">>},
                 createEventCmd : {Undefined, <<"g", "o", "g", " ", "c">>},
                 updateEventCmd : {Undefined, <<"c", "u", "r", "l", " ", "x">>},
                 deleteEventCmd : {Undefined, <<" ", "g", "o", "g", " ", "d">>}] :
       codec = [stage |-> "loaded",
                config |-> [mappings |-> mappings, gog |-> gog],
                errors |-> Undefined,
                operation |-> Undefined,
                outcome |-> NoObject]

\* errors = validateConfig(config)
Validate ==
  /\ pc = "guard"
  /\ codec.stage = "loaded"
  /\ codec' = [codec EXCEPT !.stage = "validated",
                            !.errors = validateConfig(codec.config)]
  /\ UNCHANGED runVars

\* A client built on the config runs one operation: listEvents, createEvent,
\* updateEvent or deleteEvent asks template for its command.
Operate ==
  /\ pc = "guard"
  /\ codec.stage = "validated"
  /\ \E name \in DOMAIN DEFAULTS :
       codec' = [codec EXCEPT !.stage = "operated",
                              !.operation = name,
                              !.outcome = template(codec.config.gog, name)]
  /\ UNCHANGED runVars

GuardSpec == GuardInit /\ [][Validate \/ Operate]_vars

\* ----------------------------------------------------------- properties

\* executePlan holds the plan planReconcile returned for the listing in
\* targetEvents, and has applied none of it.
JustPlanned == pc = "applying" /\ cursor = 1

MutatingTypes == {"create", "update", "delete"}

\* The positions of the actions of the given types.
ActionsOfType(actions, types) == {i \in 1..Len(actions) : actions[i].type \in types}

MutatingCount(actions) == Cardinality(ActionsOfType(actions, MutatingTypes))

SkipCount(actions) == Cardinality(ActionsOfType(actions, {"skip_overlap"}))

Range(seq) == {seq[i] : i \in 1..Len(seq)}

\* C1: the plan planReconcile returns holds at most maxChangesPerRun create,
\* update and delete actions; its skip_overlap actions are not counted.
C1_BudgetBoundsMutations ==
  JustPlanned => MutatingCount(plan.actions) <= maxChangesPerRun

\* C1's case: a plan that spends the whole budget and holds a skip_overlap
\* besides, so that it is longer than the budget.
C1_Witness ==
  /\ JustPlanned
  /\ MutatingCount(plan.actions) = maxChangesPerRun
  /\ SkipCount(plan.actions) > 0
  /\ Len(plan.actions) > maxChangesPerRun

\* C2: the existing event of every update and delete of a plan is a target
\* event whose description decodes to a SourceRef; no unmanaged target event
\* is the subject of an update or a delete, whatever the policy and the budget.
C2_OnlyManagedMutated ==
  JustPlanned =>
    \A i \in ActionsOfType(plan.actions, {"update", "delete"}) :
      /\ plan.actions[i].existing \in Range(targetEvents)
      /\ ~IsNull(Decoded(plan.actions[i].existing.description))

\* C2's case: the target holds an unmanaged event that blocks a hold under the
\* policy "skip", and the plan updates or deletes another event.
C2_Witness ==
  /\ JustPlanned
  /\ overlapPolicy = "skip"
  /\ SkipCount(plan.actions) > 0
  /\ ActionsOfType(plan.actions, {"update", "delete"}) # {}
  /\ \E e \in Range(targetEvents) : IsNull(Decoded(e.description))

\* A run has returned and executePlan has planned again, from the same
\* desired holds and the calendar the run left.
Replanned == run >= 1 /\ JustPlanned

DistinctKeys(holds) ==
  \A i, j \in 1..Len(holds) :
    Keyed(holds[i].source) = Keyed(holds[j].source) => i = j

\* C4: planReconcile returns the same plan for the same target events and
\* desired holds given in any other order: the same actions in the same
\* order, the same blockingEventId in every skip_overlap, the same capped.
C4_OrderIndependent ==
  (JustPlanned /\ DistinctKeys(desiredHolds)) =>
    \A listing \in Listings(calendar) :
      \A holds \in Listings(Range(desiredHolds)) :
        planReconcile(holds, listing, overlapPolicy, maxChangesPerRun) = plan

\* The managed events of a calendar, and the key of one.
ManagedOf(events) == {e \in events : ~IsNull(Decoded(e.description))}

UnmanagedOf(events) == events \ ManagedOf(events)

KeyOfEvent(event) == Keyed(Decoded(event.description))

WithKey(events, key) == {e \in ManagedOf(events) : KeyOfEvent(e) = key}

DesiredKeys(holds) == {Keyed(h.source) : h \in Range(holds)}

\* The desired hold of a key: the last one given with it.
DesiredFor(holds, key) ==
  LET at == {i \in 1..Len(holds) : Keyed(holds[i].source) = key}
  IN holds[CHOOSE i \in at : \A j \in at : j <= i]

\* The managed event of a key with the least id.
PrimaryOf(events, key) ==
  LET bucket == WithKey(events, key)
  IN CHOOSE e \in bucket : \A other \in bucket : localeCompare(e.id, other.id) <= 0

IsBlocked(hold, events, policy) ==
  policy = "skip" /\ \E u \in UnmanagedOf(events) : isOverlap(u, hold.event)

\* The mutations a calendar requires: a create for each desired key with no
\* managed event and no blocker, an update for each primary that is not
\* equivalent to its desired event, a delete for each duplicate and for each
\* managed event whose key is not desired.
RequiredCreates(holds, events, policy) ==
  {k \in DesiredKeys(holds) :
     WithKey(events, k) = {} /\ ~IsBlocked(DesiredFor(holds, k), events, policy)}

RequiredUpdates(holds, events) ==
  {k \in DesiredKeys(holds) :
     /\ WithKey(events, k) # {}
     /\ ~isEquivalent(PrimaryOf(events, k), DesiredFor(holds, k).event)}

RequiredDeletes(holds, events) ==
  LET keys == DesiredKeys(holds)
  IN {e \in ManagedOf(events) :
        \/ KeyOfEvent(e) \notin keys
        \/ e # PrimaryOf(events, KeyOfEvent(e))}

\* Their number, counted in one pass: the deletes are the managed events but
\* for one kept event for each desired key that has any.
RequiredMutations(holds, events, policy) ==
  LET managed == ManagedOf(events)
      keyOf == [e \in managed |-> KeyOfEvent(e)]
      keys == DesiredKeys(holds)
      bucket(k) == {e \in managed : keyOf[e] = k}
      primary(k) ==
        CHOOSE e \in bucket(k) : \A o \in bucket(k) : localeCompare(e.id, o.id) <= 0
      creates == {k \in keys : bucket(k) = {}
                                /\ ~IsBlocked(DesiredFor(holds, k), events, policy)}
      kept == {k \in keys : bucket(k) # {}}
      updates == {k \in kept : ~isEquivalent(primary(k), DesiredFor(holds, k).event)}
  IN Cardinality(creates) + Cardinality(updates)
     + Cardinality(managed) - Cardinality(kept)

\* C5: when the target requires more mutations than maxChangesPerRun, the
\* plan holds exactly maxChangesPerRun mutating actions and is capped.
C5_BudgetEnforced ==
  (JustPlanned
   /\ RequiredMutations(desiredHolds, Range(targetEvents), overlapPolicy)
        > maxChangesPerRun) =>
    /\ MutatingCount(plan.actions) = maxChangesPerRun
    /\ plan.capped

\* C5's case: a budget of two or more, and more mutations required than it
\* allows, an update among them.
C5_Witness ==
  /\ JustPlanned
  /\ maxChangesPerRun >= 2
  /\ RequiredMutations(desiredHolds, Range(targetEvents), overlapPolicy)
       > maxChangesPerRun
  /\ RequiredUpdates(desiredHolds, Range(targetEvents)) # {}
  /\ plan.capped

\* C6: when the plan is not capped and holds no skip_overlap, applying all
\* its actions leaves the target with exactly one managed event for each
\* desired key, equivalent to the desired event of the key, with no managed
\* event of a key that is not desired, and with the unmanaged events as they
\* were listed.
C6_UncappedRunConverges ==
  (LoopDone /\ ~plan.capped /\ SkipCount(plan.actions) = 0) =>
    /\ \A k \in DesiredKeys(desiredHolds) :
         /\ Cardinality(WithKey(calendar, k)) = 1
         /\ \A e \in WithKey(calendar, k) :
              isEquivalent(e, DesiredFor(desiredHolds, k).event)
    /\ \A e \in ManagedOf(calendar) : KeyOfEvent(e) \in DesiredKeys(desiredHolds)
    /\ UnmanagedOf(calendar) = UnmanagedOf(Range(targetEvents))

\* C6's case: a run that created a hold and updated another beside an
\* unmanaged event, its plan neither capped nor skipping.
C6_Witness ==
  /\ LoopDone
  /\ ~plan.capped
  /\ SkipCount(plan.actions) = 0
  /\ counters.creates > 0
  /\ counters.updates > 0
  /\ UnmanagedOf(calendar) # {}
\* The positions of the plan's actions of a type on an event of a key, and
\* of its creates for a key.
ActionsOnKey(actions, type, events, key) ==
  {i \in ActionsOfType(actions, {type}) : actions[i].existing \in WithKey(events, key)}

CreatesForKey(actions, key) ==
  {i \in ActionsOfType(actions, {"create"}) : Keyed(actions[i].desired.source) = key}

\* A desired key that exactly two managed target events carry.
DoubledKeys(holds, events) ==
  {k \in DesiredKeys(holds) : Cardinality(WithKey(events, k)) = 2}

SufficientBudget ==
  RequiredMutations(desiredHolds, Range(targetEvents), overlapPolicy) <= maxChangesPerRun

\* The event of a key whose id is the smaller one in the order of the
\* strings' code units (the order of < on strings), and the other one.
SmallerOf(events, key) ==
  CHOOSE e \in WithKey(events, key) :
    \A other \in WithKey(events, key) \ {e} : StrLess(e.id, other.id)

LargerOf(events, key) ==
  CHOOSE e \in WithKey(events, key) : e # SmallerOf(events, key)

\* C7: for a desired key that exactly two managed target events carry, and a
\* budget that suffices, the plan holds exactly one delete, of the event with
\* the larger id, and at most one update, of the event with the smaller id
\* and only when that event is not equivalent to the desired event; it holds
\* no create for the key.
C7_DuplicateCollapse ==
  (JustPlanned /\ SufficientBudget) =>
    \A k \in DoubledKeys(desiredHolds, Range(targetEvents)) :
      LET events == Range(targetEvents)
          deletes == ActionsOnKey(plan.actions, "delete", events, k)
          updates == ActionsOnKey(plan.actions, "update", events, k)
      IN /\ Cardinality(deletes) = 1
         /\ \A i \in deletes : plan.actions[i].existing = LargerOf(events, k)
         /\ Cardinality(updates) <= 1
         /\ \A i \in updates :
              /\ plan.actions[i].existing = SmallerOf(events, k)
              /\ plan.actions[i].desired = DesiredFor(desiredHolds, k)
         /\ (updates # {}) <=>
              ~isEquivalent(SmallerOf(events, k), DesiredFor(desiredHolds, k).event)
         /\ CreatesForKey(plan.actions, k) = {}
\* The scenario of the test "creates missing hold and deletes stale hold":
\* one desired hold, and a target of one managed event tagged for another
\* source event; the policy is "allow" and the budget two or more.
StaleFreshScenario ==
  /\ JustPlanned
  /\ Len(desiredHolds) = 1
  /\ Len(targetEvents) = 1
  /\ targetEvents[1] \in ManagedOf(Range(targetEvents))
  /\ KeyOfEvent(targetEvents[1]) # Keyed(desiredHolds[1].source)
  /\ overlapPolicy = "allow"
  /\ maxChangesPerRun >= 2

\* C8 as the specification states it: in the scenario the plan is the delete
\* of the stale event, then the create of the fresh hold.
C8_DeleteThenCreate ==
  StaleFreshScenario =>
    plan.actions = <<[type |-> "delete", existing |-> targetEvents[1]],
                     [type |-> "create", desired |-> desiredHolds[1]]>>

\* C8: in the scenario the plan is the create of the fresh hold, then the
\* delete of the stale event, and it is not capped: the desired keys are
\* processed before the stale holds are cleaned up.
C8_CreateThenDelete ==
  StaleFreshScenario =>
    /\ plan.actions = <<[type |-> "create", desired |-> desiredHolds[1]],
                        [type |-> "delete", existing |-> targetEvents[1]]>>
    /\ ~plan.capped

\* C8's case: the scenario with `fresh` desired and the hold of `stale` in
\* the target.
C8_Witness ==
  /\ StaleFreshScenario
  /\ desiredHolds[1] = DesiredOf(SourceFresh)
  /\ KeyOfEvent(targetEvents[1]) = Keyed(DesiredOf(SourceStale).source)
\* The eight fields of an event that isEquivalent compares.
ComparedFields(event) ==
  <<event.summary, event.description, event.visibility, event.transparency,
    event.start.dateTime, event.start.date, event.end.dateTime, event.end.date>>

\* The desired keys that exactly one managed target event carries.
SoleKeys(holds, events) ==
  {k \in DesiredKeys(holds) : Cardinality(WithKey(events, k)) = 1}

\* The positions of the plan's actions for a key: on an event of the key, or
\* for the desired hold of the key.
ActionsForKey(actions, events, key) ==
  ActionsOnKey(actions, "update", events, key)
  \cup ActionsOnKey(actions, "delete", events, key)
  \cup {i \in ActionsOfType(actions, {"create", "skip_overlap"}) :
          Keyed(actions[i].desired.source) = key}

\* The mutations the desired keys before a key require: what the budget has
\* been spent on when the planner comes to the key.
RequiredBefore(holds, events, policy, key) ==
  LET keys == DesiredKeys(holds)
  IN Cardinality({k \in RequiredCreates(holds, events, policy) : StrLess(k, key)})
     + Cardinality({k \in RequiredUpdates(holds, events) : StrLess(k, key)})
     + Cardinality({e \in RequiredDeletes(holds, events) :
                      KeyOfEvent(e) \in keys /\ StrLess(KeyOfEvent(e), key)})

\* C9: when the only managed event of a desired key equals the desired event
\* in the eight compared fields, the plan holds no action for the key,
\* whatever the id, status, etag, updated and reminders of the two are; when
\* it differs in one of the eight and budget remains, the plan holds exactly
\* one action for the key, update(primary, desired).
C9_NoOpOrOneUpdate ==
  JustPlanned =>
    \A k \in SoleKeys(desiredHolds, Range(targetEvents)) :
      LET events == Range(targetEvents)
          existing == PrimaryOf(events, k)
          desired == DesiredFor(desiredHolds, k)
          forKey == ActionsForKey(plan.actions, events, k)
      IN IF ComparedFields(existing) = ComparedFields(desired.event)
         THEN forKey = {}
         ELSE RequiredBefore(desiredHolds, events, overlapPolicy, k) < maxChangesPerRun =>
                /\ Cardinality(forKey) = 1
                /\ \A i \in forKey :
                     plan.actions[i] = [type |-> "update", existing |-> existing,
                                        desired |-> desired]

\* C9's case: two desired keys with one managed event each; one event equals
\* its desired event in the compared fields and differs from it in id,
\* status, etag and reminders, the other has drifted and is updated.
C9_Witness ==
  /\ JustPlanned
  /\ \E k \in SoleKeys(desiredHolds, Range(targetEvents)) :
       LET existing == PrimaryOf(Range(targetEvents), k)
           desired == DesiredFor(desiredHolds, k).event
       IN /\ ComparedFields(existing) = ComparedFields(desired)
          /\ existing.id # desired.id
          /\ existing.status # desired.status
          /\ existing.etag # desired.etag
          /\ existing.reminders # desired.reminders
          /\ ActionsForKey(plan.actions, Range(targetEvents), k) = {}
  /\ \E k \in SoleKeys(desiredHolds, Range(targetEvents)) :
       /\ ComparedFields(PrimaryOf(Range(targetEvents), k))
            # ComparedFields(DesiredFor(desiredHolds, k).event)
       /\ ActionsOnKey(plan.actions, "update", Range(targetEvents), k) # {}
\* The literal prefix of a tag.
TagPrefix == <<"S", "Y", "N", "C", "V", "1", ":">>

\* C10: decodeSourceRef(encodeSourceRef(source)) is a SourceRef equal to
\* source in each of the six fields, and encodeSourceRef(source) starts with
\* the literal prefix "SYNCV1:".
C10_CodecRoundTrip ==
  /\ codec # NoObject /\ codec.stage # "source" =>
       /\ Len(codec.description) > Len(TagPrefix)
       /\ SubSeq(codec.description, 1, Len(TagPrefix)) = TagPrefix
  /\ codec # NoObject /\ codec.stage \in {"decoded", "located"} =>
       /\ ~IsNull(codec.decoded)
       /\ codec.decoded.srcAccount = codec.source.srcAccount
       /\ codec.decoded.srcCalendar = codec.source.srcCalendar
       /\ codec.decoded.eventId = codec.source.eventId
       /\ codec.decoded.start = codec.source.start
       /\ codec.decoded.end = codec.source.end
       /\ codec.decoded.title = codec.source.title

\* C10's case: a SourceRef with a quote and a backslash in its title and an
\* empty field has been encoded and decoded.
C10_Witness ==
  /\ codec # NoObject
  /\ codec.stage = "decoded"
  /\ codec.prepended = <<>>
  /\ codec.source.title = <<"a", "\"", "b", "\\", "c">>
  /\ codec.source.srcAccount = <<>>
  /\ codec.decoded = codec.source

\* The two SourceRefs agree on the five fields of the key.
SameKeyFields(a, b) ==
  /\ a.srcAccount = b.srcAccount
  /\ a.srcCalendar = b.srcCalendar
  /\ a.eventId = b.eventId
  /\ a.start = b.start
  /\ a.end = b.end

KeyFieldsOf(source) ==
  {source.srcAccount, source.srcCalendar, source.eventId, source.start, source.end}

\* The text holds no "::" and neither begins nor ends with a colon.
DelimiterFree(text) ==
  /\ \A i \in 1..(Len(text) - 1) : ~(text[i] = ":" /\ text[i + 1] = ":")
  /\ text # <<>> => text[1] # ":" /\ text[Len(text)] # ":"

KeysComputed == pc = "keys" /\ codec.stage = "keyed"

\* C11 as the specification states it: holdKey(a) = holdKey(b) if and only if a and b agree on
\* srcAccount, srcCalendar, eventId, start and end, for every choice of the
\* field strings, those that contain the delimiter "::" included.
C11_KeyInjective ==
  KeysComputed => (codec.keyA = codec.keyB <=> SameKeyFields(codec.a, codec.b))

\* C11: two SourceRefs that agree on the five fields have the same
\* key whatever the fields and the titles are, and two SourceRefs with the
\* same key agree on the five fields when none of their key fields holds
\* "::" or begins or ends with a colon.
C11_KeyInjectiveOffDelimiter ==
  KeysComputed =>
    /\ SameKeyFields(codec.a, codec.b) => codec.keyA = codec.keyB
    /\ (\A t \in KeyFieldsOf(codec.a) \cup KeyFieldsOf(codec.b) : DelimiterFree(t))
         => (codec.keyA = codec.keyB => SameKeyFields(codec.a, codec.b))

\* C11's case: two SourceRefs with a colon inside a field that differ in the
\* title alone have got the same key, and in another run two that differ in
\* a field have got different keys.
C11_Witness ==
  /\ KeysComputed
  /\ codec.a.srcAccount = <<"x", ":", "x">>
  /\ \A t \in KeyFieldsOf(codec.a) \cup KeyFieldsOf(codec.b) : DelimiterFree(t)
  /\ \/ /\ SameKeyFields(codec.a, codec.b)
        /\ codec.a.title # codec.b.title
        /\ codec.keyA = codec.keyB
     \/ /\ codec.a.srcCalendar # codec.b.srcCalendar
        /\ codec.keyA # codec.keyB

\* The text holds the literal prefix of a tag somewhere.
HoldsTagPrefix(text) ==
  \E i \in 1..Len(text) :
    /\ i + Len(TagPrefix) - 1 <= Len(text)
    /\ SubSeq(text, i, i + Len(TagPrefix) - 1) = TagPrefix

Located == pc = "codec" /\ codec.stage = "located"

\* C12 as the specification states it: for every SourceRef s and every text t written before the
\* tag, decodeSourceRef(t + encodeSourceRef(s)) is s.
C12_TagAnywhere == Located => codec.located = codec.source

\* C12: for every SourceRef s and every text t that does not itself
\* hold "SYNCV1:", decodeSourceRef(t + encodeSourceRef(s)) is s, wherever the
\* tag then starts.
C12_TagAfterPlainText ==
  Located /\ ~HoldsTagPrefix(codec.prepended) => codec.located = codec.source

\* C12's case: a tag that starts at offset 4, after the first letters of the
\* prefix, has been decoded to its SourceRef.
C12_Witness ==
  /\ Located
  /\ codec.prepended = <<"S", "Y", "N", "C">>
  /\ IndexOf(codec.prepended \o codec.description, TagPrefix) = 4
  /\ codec.located = codec.source
  /\ codec.source.title = <<"x", " ">>

\* The positions of the listed events with a foreign description.
ForeignListed == {i \in 1..Len(targetEvents) :
                    targetEvents[i].description \in ForeignDescriptions}

\* The events of the input without a complete range.
Incomplete ==
  {e \in Range(targetEvents) \cup {desiredHolds[i].event : i \in 1..Len(desiredHolds)} :
     ~HasTimedRange(e) /\ ~HasAllDayRange(e)}

\* C13: for a listed event whose description is missing, empty, without the
\* prefix or with a payload that is not base64url JSON of six strings,
\* decodeSourceRef returns null, splitManaged puts the event among the
\* unmanaged ones, planReconcile throws only when some event of the input
\* lacks a complete range, and existingManagedCount counts the other listed
\* events only.
C13_ForeignUnmanaged ==
  /\ pc \in {"split", "planned", "failed"} =>
       \A i \in ForeignListed :
         /\ IsNull(codec.decoded[i])
         /\ targetEvents[i] \in Range(codec.split.unmanaged)
         /\ targetEvents[i] \notin Range(codec.split.managed)
  /\ pc = "failed" => Incomplete # {}
  /\ pc = "planned" =>
       /\ plan.existingManagedCount = Len(targetEvents) - Cardinality(ForeignListed)
       /\ \A i \in ForeignListed, j \in 1..Len(plan.actions) :
            plan.actions[j].type \in {"update", "delete"} =>
              plan.actions[j].existing.id # targetEvents[i].id

\* C13's case: a listing of a SourceRef whose title is a number and of the
\* hold of `fresh` has been planned: one managed event is counted.
C13_Witness ==
  /\ pc = "planned"
  /\ Len(targetEvents) = 2
  /\ ForeignListed = {1}
  /\ Len(targetEvents[1].description) > 20
  /\ "title" \notin DOMAIN codec.decoded[1]
  /\ desiredHolds = <<DesiredOf(SourceStale)>>
  /\ plan.existingManagedCount = 1
  /\ \E j \in 1..Len(plan.actions) : plan.actions[j].type = "delete"

\* The pairs of a listed event and a desired hold for the same source event
\* at the same times (no other listed event and no other desired hold is for
\* it) that differ in the title of the SourceRef and in nothing else that is
\* compared: the description alone.
TitleEdits ==
  {p \in (1..Len(targetEvents)) \X (1..Len(desiredHolds)) :
     LET existing == targetEvents[p[1]]
         source == Decoded(existing.description)
         desired == desiredHolds[p[2]]
     IN /\ ~IsNull(source)
        /\ SameKeyFields(source, desired.source)
        /\ source.title # desired.source.title
        /\ [ComparedFields(existing) EXCEPT ![2] = desired.event.description]
             = ComparedFields(desired.event)
        /\ \A m \in 1..Len(targetEvents) :
             m # p[1] /\ ~IsNull(Decoded(targetEvents[m].description)) =>
               ~SameKeyFields(Decoded(targetEvents[m].description), desired.source)
        /\ \A n \in 1..Len(desiredHolds) :
             n # p[2] => ~SameKeyFields(desiredHolds[n].source, desired.source)}

\* The plan holds exactly one action on the event, its update to the desired
\* hold, and neither a create nor a skip for the hold's source event.
OneUpdateFor(existing, desired) ==
  /\ Cardinality({i \in 1..Len(plan.actions) :
                    plan.actions[i] = [type |-> "update", existing |-> existing,
                                       desired |-> desired]}) = 1
  /\ \A i \in 1..Len(plan.actions) :
       IF plan.actions[i].type \in {"update", "delete"}
       THEN plan.actions[i].existing = existing =>
              plan.actions[i].type = "update" /\ plan.actions[i].desired = desired
       ELSE ~SameKeyFields(plan.actions[i].desired.source, desired.source)

\* C14 as the specification states it: when a desired hold differs from the managed event of the
\* same source event in the SourceRef title only, the plan holds exactly one
\* update of that event and neither a create nor a delete for it.
C14_TitleEditUpdates ==
  pc = "planned" =>
    \A p \in TitleEdits : OneUpdateFor(targetEvents[p[1]], desiredHolds[p[2]])

\* C14: the same, when the mutations that the desired keys before
\* this one require are fewer than maxChangesPerRun.
C14_TitleEditUpdatesInBudget ==
  pc = "planned" =>
    \A p \in TitleEdits :
      RequiredBefore(desiredHolds, Range(targetEvents), overlapPolicy,
                     Keyed(desiredHolds[p[2]].source)) < maxChangesPerRun
        => OneUpdateFor(targetEvents[p[1]], desiredHolds[p[2]])

\* C14's case: the title of `fresh` was edited; the plan is the update of
\* its hold alone.
C14_Witness ==
  /\ pc = "planned"
  /\ desiredHolds = <<DesiredOf(SourceRetitled)>>
  /\ targetEvents = <<HoldOf(<<"a">>, SourceFresh)>>
  /\ TitleEdits # {}
  /\ plan.actions = <<[type |-> "update", existing |-> targetEvents[1],
                       desired |-> desiredHolds[1]]>>

\* isOverlap has compared two events that both have a range.
Compared ==
  /\ pc = "overlap"
  /\ codec.stage = "compared"
  /\ codec.ra # NoObject
  /\ codec.rb # NoObject

\* C15: isOverlap(a, b) is true exactly when a starts before b ends and b
\* starts before a ends; isOverlap(b, a) is the same value; and two events
\* of which one ends when the other starts do not overlap.
C15_OverlapHalfOpen ==
  Compared =>
    /\ ~Threw(codec.ab) /\ ~Threw(codec.ba)
    /\ codec.ab.value <=> (codec.ra.startMs < codec.rb.endMs
                           /\ codec.rb.startMs < codec.ra.endMs)
    /\ codec.ab.value = codec.ba.value
    /\ codec.ra.endMs = codec.rb.startMs => ~codec.ab.value

\* C15's case: an event that ends at 2T0Z and an all-day event of day 2
\* touch and do not overlap, and in another run two events overlap.
C15_Witness ==
  /\ Compared
  /\ \/ /\ ~codec.ra.allDay /\ codec.ra.startMs = 25 /\ codec.ra.endMs = 48
        /\ codec.rb.allDay /\ codec.rb.startMs = 48
        /\ ~codec.ab.value /\ ~codec.ba.value
     \/ /\ codec.ra.startMs = 25 /\ codec.ra.endMs = 27
        /\ codec.rb.startMs = 26 /\ codec.rb.endMs = 48
        /\ codec.ab.value /\ codec.ba.value

\* A range with a start before its end.
WellFormed(range) == range.startMs < range.endMs

\* C16 as the specification states it: for two events with well-formed ranges, when a ends after
\* b starts, isOverlap(a, b) is true.
C16_EndAfterStartOverlaps ==
  (Compared /\ WellFormed(codec.ra) /\ WellFormed(codec.rb)
   /\ codec.ra.endMs > codec.rb.startMs) => codec.ab.value

\* C16: for two events with well-formed ranges of which a starts no
\* later than b, when a ends after b starts, isOverlap(a, b) is true.
C16_EarlierEndAfterStartOverlaps ==
  (Compared /\ WellFormed(codec.ra) /\ WellFormed(codec.rb)
   /\ codec.ra.startMs <= codec.rb.startMs
   /\ codec.ra.endMs > codec.rb.startMs) => codec.ab.value

\* C16's case: a runs from 1T1Z to 1T3Z and b from 1T2Z to 1T3Z, so a ends
\* one hour after b starts, and the two overlap.
C16_Witness ==
  /\ Compared
  /\ ~codec.ra.allDay /\ codec.ra.startMs = 25 /\ codec.ra.endMs = 27
  /\ ~codec.rb.allDay /\ codec.rb.startMs = 26 /\ codec.rb.endMs = 27
  /\ codec.ab.value

\* C17: whenever the input holds an event (listed, or of a desired hold)
\* with neither a complete dateTime pair nor a complete date pair,
\* planReconcile throws the error that names the id of such an event and
\* returns no plan, under either policy and whatever is managed.
C17_EagerValidation ==
  (pc \in {"planned", "failed"} /\ Incomplete # {}) =>
    /\ pc = "failed"
    /\ Threw(plan)
    /\ plan.threw.error = "missing supported start/end fields"
    /\ \E e \in Incomplete : plan.threw.id = e.id

\* The listed unmanaged events whose range overlaps the event's: an event
\* without a complete range overlaps nothing.
Blockers(event) ==
  {u \in UnmanagedOf(Range(targetEvents)) :
     /\ isOverlapError(u, event) = NoObject
     /\ eventRange(u).startMs < eventRange(event).endMs
     /\ eventRange(event).startMs < eventRange(u).endMs}

\* The positions of the plan's actions of a type for a desired hold.
ActionsFor(type, hold) ==
  {i \in ActionsOfType(plan.actions, {type}) : plan.actions[i].desired = hold}

\* C18: for a desired key with no managed event, under the policy "skip" the
\* plan holds a skip_overlap for the hold that names an overlapping
\* unmanaged event, and no create, exactly when some unmanaged event
\* overlaps the desired event, whatever the budget is; the skips take no
\* budget (the mutations are the required ones, up to maxChangesPerRun) and
\* do not set capped (a plan that holds every required mutation is not
\* capped).  Under the policy "allow" the plan holds no skip_overlap.
C18_OverlapPolicy ==
  pc = "planned" =>
    /\ \A k \in DesiredKeys(desiredHolds) :
         (WithKey(Range(targetEvents), k) = {} /\ overlapPolicy = "skip") =>
           LET hold == DesiredFor(desiredHolds, k)
           IN /\ (ActionsFor("skip_overlap", hold) # {} /\ ActionsFor("create", hold) = {})
                   <=> Blockers(hold.event) # {}
              /\ \A i \in ActionsFor("skip_overlap", hold) :
                   \E u \in Blockers(hold.event) : plan.actions[i].blockingEventId = u.id
    /\ overlapPolicy = "allow" => SkipCount(plan.actions) = 0
    /\ \A i \in ActionsOfType(plan.actions, {"skip_overlap"}) :
         WithKey(Range(targetEvents), Keyed(plan.actions[i].desired.source)) = {}
    /\ LET required == RequiredMutations(desiredHolds, Range(targetEvents), overlapPolicy)
       IN /\ MutatingCount(plan.actions)
               = (IF required < maxChangesPerRun THEN required ELSE maxChangesPerRun)
          /\ required <= maxChangesPerRun => ~plan.capped

\* C18's case: with a budget of one, used up by the create of `fresh`, the
\* hold of `stale` is skipped for the all-day event of day 2, and the plan is
\* not capped.
C18_Witness ==
  /\ pc = "planned"
  /\ overlapPolicy = "skip"
  /\ maxChangesPerRun = 1
  /\ Len(desiredHolds) = 2
  /\ Len(targetEvents) = 1
  /\ plan.actions = <<[type |-> "create", desired |-> desiredHolds[1]],
                      [type |-> "skip_overlap", desired |-> desiredHolds[2],
                       blockingEventId |-> targetEvents[1].id]>>
  /\ ~plan.capped

\* planReconcile has just returned or thrown.
PlanEnded == pc \in {"applying", "failed"} /\ cursor = 1

\* C19: the plan is capped exactly when it holds fewer mutations than the
\* target requires; a plan of exactly maxChangesPerRun mutations that are
\* all the required ones is not capped; and planReconcile returns a plan,
\* and does not throw, when more mutations are required than the budget
\* allows.
C19_CappedIffLeftOut ==
  PlanEnded =>
    LET required == RequiredMutations(desiredHolds, Range(targetEvents), overlapPolicy)
    IN /\ required > maxChangesPerRun => ~Threw(plan) /\ pc = "applying"
       /\ ~Threw(plan) =>
            /\ plan.capped <=> MutatingCount(plan.actions) < required
            /\ (MutatingCount(plan.actions) = maxChangesPerRun
                 /\ required = maxChangesPerRun) => ~plan.capped

\* C19's case: a budget of two and exactly two required mutations give a
\* plan of two mutations that is not capped, and in another run a third
\* required mutation is left out and the plan is capped.
C19_Witness ==
  /\ PlanEnded
  /\ ~Threw(plan)
  /\ maxChangesPerRun = 2
  /\ MutatingCount(plan.actions) = 2
  /\ \/ /\ RequiredMutations(desiredHolds, Range(targetEvents), overlapPolicy) = 2
        /\ ~plan.capped
     \/ /\ RequiredMutations(desiredHolds, Range(targetEvents), overlapPolicy) = 3
        /\ plan.capped

\* The positions in the log of calls of a kind of entry for an action.
LogOf(op, i) == {p \in 1..Len(calls) : calls[p] = [op |-> op, index |-> i]}

\* The actions whose call has been issued and has not completed.
CallsInFlight ==
  {i \in 1..Len(plan.actions) : LogOf("issue", i) # {} /\ LogOf("complete", i) = {}}

\* C20: at most one backend call is in flight; each mutating action before
\* the cursor has had exactly one call (none in a dry run), issued and then completed, and no
\* action from the cursor on has had one but the action at the cursor while
\* its call is awaited; and when the call of an action is issued, the calls
\* of all the mutating actions before it have completed.
C20_OneCallAtATime ==
  pc \in {"applying", "awaiting"} /\ plan # NoObject =>
    /\ Cardinality(CallsInFlight) <= 1
    /\ CallsInFlight = IF pc = "awaiting" THEN {cursor} ELSE {}
    /\ \A i \in 1..Len(plan.actions) :
         /\ Cardinality(LogOf("issue", i))
              = (IF plan.actions[i].type \in MutatingTypes /\ ~dryRun
                    /\ (i < cursor \/ (i = cursor /\ pc = "awaiting"))
                 THEN 1 ELSE 0)
         /\ \A p \in LogOf("issue", i) :
              \A j \in 1..(i - 1) :
                plan.actions[j].type \in MutatingTypes =>
                  \E q \in LogOf("complete", j) : q < p
         /\ \A q \in LogOf("complete", i) : \E p \in LogOf("issue", i) : p < q

\* C20's case: the calls of two actions have been issued and completed, one
\* after the other, and the third action's call is awaited.
C20_Witness ==
  /\ pc = "awaiting"
  /\ Len(calls) = 5
  /\ calls[2].op = "complete" /\ calls[3].op = "issue"
  /\ calls[3].index > calls[2].index
  /\ CallsInFlight = {cursor}

\* The poll loop of watch has compared the signature of this cycle's snapshot
\* with the stored one.
SignaturesCompared == watch.handlers /\ watch.nextSignature # Undefined

\* C21: in a poll cycle the planner has run for the mapping, or executePlan
\* is about to list the target for it, only if the signature of this cycle's
\* snapshot differs from the one that was stored; when the two are equal
\* there is no plan, hence no mutation, and the cycle is over.
C21_SignatureGating ==
  watch.handlers =>
    /\ (plan # NoObject \/ pc \in {"listing", "applying", "awaiting"}) =>
         SignaturesCompared /\ watch.nextSignature # watch.previousSignature
    /\ (SignaturesCompared /\ watch.nextSignature = watch.previousSignature) =>
         plan = NoObject /\ pc \in {"sleeping", "stopped"}

\* The first cycle found another signature and applied a plan; the source
\* changed again, and the second cycle found the stored signature.
C21_Witness ==
  /\ watch.cycle = 2
  /\ "changed" \in Range(watch.log)
  /\ watch.edits > 0
  /\ SignaturesCompared
  /\ watch.nextSignature = watch.previousSignature
  /\ pc = "sleeping"

\* C22: a signal that reaches the poll loop clears `running` and leaves the
\* plan, the cursor and the calls as they are; with `running` cleared the
\* application of a plan goes on until executePlan has been through every
\* action (or a backend call fails); the loop ends only after its sleep,
\* between two cycles, and no cycle begins once `running` is cleared.
C22_CooperativeStop ==
  [][ /\ (watch.handlers /\ watch.running /\ ~watch.running') =>
           /\ pc' = pc
           /\ plan' = plan
           /\ cursor' = cursor
           /\ calls' = calls
      /\ (watch.handlers /\ ~watch.running /\ pc \in {"applying", "awaiting"}) =>
           \/ pc' \in {"applying", "awaiting"} /\ plan' = plan /\ cursor' >= cursor
           \/ LoopDone /\ pc' = "sleeping" /\ run' = run + 1
           \/ watch.failures' > watch.failures /\ pc' = "sleeping"
      /\ (pc' = "stopped" /\ pc # "stopped") => pc = "sleeping" /\ plan = NoObject
      /\ (watch.handlers /\ ~watch.running) => watch.cycle' = watch.cycle
    ]_vars

\* The signal arrived while a backend call of a plan was in flight; the plan
\* was applied to its end and logged, and then the loop stopped.
C22_Witness ==
  /\ pc = "stopped"
  /\ watch.signalledAt = "awaiting"
  /\ Len(watch.log) >= 2
  /\ watch.log[Len(watch.log) - 1] = "changed"
  /\ watch.log[Len(watch.log)] = "watch stopped"

\* C23: when a backend call fails (a listing, or the call of an action),
\* one line more is logged, the error of the poll loop's catch or the one of
\* main().catch followed by the exit; the plan is dropped with the rest of
\* its actions and executePlan returns no counters.  After a failed call no
\* call of the same plan is issued.
C23_FailuresSurfaced ==
  [][ /\ watch.failures' > watch.failures =>
           /\ watch.log' = Append(watch.log, IF watch.handlers
                                             THEN "watch poll failed" ELSE "error")
           /\ pc' = IF watch.handlers THEN "sleeping" ELSE "exited"
           /\ plan' = NoObject
           /\ result' = result
           /\ run' = run
      /\ (calls' # <<>> /\ calls'[Len(calls')].op = "fail") =>
           pc' \notin {"applying", "awaiting"}
    ]_vars

\* In the poll loop the call of the first action completed and the call of
\* the second one failed: the catch logged it and the loop sleeps.
C23_Witness ==
  /\ watch.handlers
  /\ watch.failures = 1
  /\ Len(calls) = 4
  /\ calls[2].op = "complete"
  /\ calls[4].op = "fail"
  /\ pc = "sleeping"
  /\ watch.log[Len(watch.log)] = "watch poll failed"
  /\ result = NoObject

\* The operation of the client was given the override of its command.
OverrideSpawned ==
  /\ codec.stage = "operated"
  /\ ~Threw(codec.outcome)
  /\ ~Falsy(codec.config.gog[codec.operation])
  /\ codec.outcome.command = codec.config.gog[codec.operation]

\* C24 as the specification states it: an override is spawned only when
\* allowCustomCommands is true and the override starts with "gog "; with any
\* override present and allowCustomCommands not true the operation rejects;
\* validateConfig reports both conditions for every command, and a config
\* without errors never makes the guard throw.
C24_CommandGuard ==
  codec.stage = "operated" =>
    /\ OverrideSpawned =>
         /\ codec.config.gog.allowCustomCommands = "true"
         /\ StartsWith(codec.config.gog[codec.operation], <<"g", "o", "g", " ">>)
    /\ ( /\ \E k \in DOMAIN DEFAULTS : ~Falsy(codec.config.gog[k])
         /\ codec.config.gog.allowCustomCommands # "true" ) =>
         Threw(codec.outcome)
    /\ \A k \in DOMAIN DEFAULTS :
         /\ ( /\ ~Falsy(codec.config.gog[k])
              /\ codec.config.gog.allowCustomCommands # "true" ) =>
              [key |-> k, error |-> "requires gog.allowCustomCommands=true"]
                \in codec.errors
         /\ ( /\ ~Falsy(codec.config.gog[k])
              /\ codec.config.gog.allowCustomCommands = "true"
              /\ ~StartsWith(codec.config.gog[k], <<"g", "o", "g", " ">>) ) =>
              [key |-> k, error |-> "must start with 'gog '"] \in codec.errors
    /\ codec.errors = {} => ~Threw(codec.outcome)

\* C24: an override is spawned only when allowCustomCommands is true and
\* the override, trimmed, starts with "gog "; an operation whose own command
\* has an override rejects when allowCustomCommands is not true; for a
\* config with mappings validateConfig names the command of the operation
\* exactly when the guard throws, with the same condition; and a config
\* without errors never makes the guard throw.
C24_CommandGuardTrimmed ==
  codec.stage = "operated" =>
    /\ OverrideSpawned =>
         /\ codec.config.gog.allowCustomCommands = "true"
         /\ StartsWith(Trim(codec.config.gog[codec.operation]), <<"g", "o", "g", " ">>)
    /\ ( /\ ~Falsy(codec.config.gog[codec.operation])
         /\ codec.config.gog.allowCustomCommands # "true" ) =>
         Threw(codec.outcome)
    /\ ~Falsy(codec.config.gog[codec.operation]) \/ ~Threw(codec.outcome)
    /\ codec.config.mappings # <<>> =>
         /\ ( /\ Threw(codec.outcome)
              /\ codec.outcome.threw = "override requires gog.allowCustomCommands=true" )
            <=> [key |-> codec.operation,
                 error |-> "requires gog.allowCustomCommands=true"] \in codec.errors
         /\ ( /\ Threw(codec.outcome)
              /\ codec.outcome.threw = "must start with 'gog '" )
            <=> [key |-> codec.operation,
                 error |-> "must start with 'gog '"] \in codec.errors
    /\ codec.errors = {} => ~Threw(codec.outcome)

\* With allowCustomCommands true, listEvents was given an override that
\* begins with a space, and validateConfig had found no error.
C24_Witness ==
  /\ OverrideSpawned
  /\ codec.operation = "listEventsCmd"
  /\ Head(codec.config.gog.listEventsCmd) = " "
  /\ codec.errors = {}

\* The key an action of a plan is about.
KeyOfAction(a) ==
  IF a.type \in {"create", "skip_overlap"} THEN Keyed(a.desired.source)
  ELSE KeyOfEvent(a.existing)

\* The actions of a plan for the given desired holds are in the order C25
\* describes, where idLess is the order of the ids: the actions of desired
\* keys come before the deletes of the other keys; in each of the two parts
\* the keys ascend; for one key a create, update or skip_overlap comes before
\* the deletes, and the deletes ascend by id.
InActionOrder(actions, holds, idLess(_, _)) ==
  \A i, j \in 1..Len(actions) :
    i < j =>
      LET a == actions[i]
          b == actions[j]
          staleA == KeyOfAction(a) \notin DesiredKeys(holds)
          staleB == KeyOfAction(b) \notin DesiredKeys(holds)
      IN /\ ~(staleA /\ ~staleB)
         /\ (staleA = staleB /\ KeyOfAction(a) # KeyOfAction(b)) =>
              StrLess(KeyOfAction(a), KeyOfAction(b))
         /\ KeyOfAction(a) = KeyOfAction(b) =>
              /\ b.type = "delete"
              /\ a.type = "delete" => idLess(a.existing.id, b.existing.id)

\* C25: every plan is in that order, the ids ascending as strings do.
C25_ActionOrder ==
  JustPlanned => InActionOrder(plan.actions, desiredHolds, StrLess)

\* Of the managed events of a desired key, primary is the only one a plan
\* updates and the one it never deletes, and with a budget that suffices
\* the plan deletes every other event of the key.
KeepsPrimary(key, primary) ==
  /\ \A i \in ActionsOnKey(plan.actions, "update", Range(targetEvents), key) :
       plan.actions[i].existing = primary
  /\ \A i \in ActionsOnKey(plan.actions, "delete", Range(targetEvents), key) :
       plan.actions[i].existing # primary
  /\ SufficientBudget =>
       {plan.actions[i].existing :
          i \in ActionsOnKey(plan.actions, "delete", Range(targetEvents), key)}
       = WithKey(Range(targetEvents), key) \ {primary}

\* C26: for every desired key with managed events, in every listing order,
\* the primary is the event whose id is the least as strings compare.
C26_PrimarySelection ==
  JustPlanned =>
    \A k \in DesiredKeys(desiredHolds) :
      WithKey(Range(targetEvents), k) # {} =>
        KeepsPrimary(k, SmallerOf(Range(targetEvents), k))

\* The positions of the creates, updates and skip_overlaps of a plan for a
\* desired key.
DesiredActionsFor(actions, key) ==
  {i \in ActionsOfType(actions, {"create", "update", "skip_overlap"}) :
     Keyed(actions[i].desired.source) = key}

\* C27: for every key of desiredHolds, shared by several holds or not, the
\* plan holds at most one create, update or skip_overlap, and its hold is
\* the last one of desiredHolds with that key; desiredCount is the length
\* of desiredHolds.
C27_CollidingDesired ==
  JustPlanned =>
    LET keys == [n \in 1..Len(desiredHolds) |-> Keyed(desiredHolds[n].source)]
        acts == ActionsOfType(plan.actions, {"create", "update", "skip_overlap"})
        keyAt == [i \in acts |-> Keyed(plan.actions[i].desired.source)]
    IN /\ \A i, j \in acts : keyAt[i] = keyAt[j] => i = j
       /\ \A i \in acts :
            \E n \in 1..Len(keys) :
              /\ keys[n] = keyAt[i]
              /\ \A m \in 1..Len(keys) : keys[m] = keyAt[i] => m <= n
              /\ plan.actions[i].desired = desiredHolds[n]
       /\ plan.desiredCount = Len(desiredHolds)

\* Two desired holds have one key and differ (in the title), and the plan
\* updates the managed event of the key to the second.
C27_Witness ==
  /\ JustPlanned
  /\ Len(desiredHolds) = 2
  /\ desiredHolds[1] # desiredHolds[2]
  /\ Keyed(desiredHolds[1].source) = Keyed(desiredHolds[2].source)
  /\ plan.desiredCount = 2
  /\ \E i \in 1..Len(plan.actions) :
       /\ plan.actions[i].type = "update"
       /\ plan.actions[i].desired = desiredHolds[2]

\* executePlan run after run for a mapping of the policy allow whose desired
\* holds have distinct keys.  No plan of the policy allow holds a
\* skip_overlap action, so the loop never takes that branch.
ConvergeInit == Init /\ overlapPolicy = "allow" /\ DistinctKeys(desiredHolds)

ConvergeSpec == ConvergeInit /\ [][Plan \/ ApplyCreate \/ ApplyUpdate \/ ApplyDelete \/ Return]_vars

\* executePlan up to the plan of its first run: planReconcile on every
\* listing of every target calendar, for every input of Init.
PlanSpec == Init /\ [][Plan]_vars

\* M: the number of mutations of the plan for a listing under the policy
\* allow and a budget that nothing exhausts.
UncappedMutations(holds, listing) ==
  MutatingCount(planReconcile(holds, listing, "allow", DefaultMaxChanges).actions)

\* The mutations executePlan has applied in this run.
Applied == counters.creates + counters.updates + counters.deletes

\* C28: with desired holds of distinct keys and the policy allow, a cycle
\* that starts from a listing with M mutations to make applies M of them
\* when M is at most the budget N, and N otherwise, and the target it leaves
\* requires M less that number; for every listing M is the number of
\* mutations the target requires, and when that is 0 the plan is empty and
\* not capped.  M thus falls by N each cycle until it is 0, which takes
\* ceil(M / N) cycles at most.
C28_ConvergesUnderBudget ==
  /\ LoopDone =>
       /\ Applied = IF UncappedMutations(desiredHolds, targetEvents) <= maxChangesPerRun
                    THEN UncappedMutations(desiredHolds, targetEvents)
                    ELSE maxChangesPerRun
       /\ RequiredMutations(desiredHolds, calendar, "allow")
            = UncappedMutations(desiredHolds, targetEvents) - Applied
  /\ JustPlanned =>
       /\ UncappedMutations(desiredHolds, targetEvents)
            = RequiredMutations(desiredHolds, Range(targetEvents), "allow")
       /\ UncappedMutations(desiredHolds, targetEvents) = 0 =>
            plan.actions = <<>> /\ ~plan.capped

\* With the budget 1, a first cycle was capped and the second cycle has
\* applied the one mutation that was left: two cycles for two mutations.
C28_Witness ==
  /\ LoopDone
  /\ maxChangesPerRun = 1
  /\ run = 1
  /\ result.capped
  /\ UncappedMutations(desiredHolds, targetEvents) = 1
  /\ Applied = 1
  /\ ~plan.capped
  /\ RequiredMutations(desiredHolds, calendar, "allow") = 0

\* The planner has returned or thrown for the listing given.
Planned == pc \in {"planned", "failed"}

\* The plan of the same arguments under a budget that nothing exhausts.
UnlimitedPlan == planReconcile(desiredHolds, targetEvents, overlapPolicy, DefaultMaxChanges)

ActionsAmong(actions, types) == SelectSeq(actions, LAMBDA a : a.type \in types)

FirstOf(seq, n) == SubSeq(seq, 1, IF n < Len(seq) THEN n ELSE Len(seq))

\* The delete of an event whose key is not desired.
IsStaleDelete(a, holds) == a.type = "delete" /\ KeyOfEvent(a.existing) \notin DesiredKeys(holds)

\* The mutating actions of a plan are the first ones, as many as the budget
\* allows, of the mutating actions of another plan; the skip_overlap actions
\* of the two are the same; and if a delete of a stale event is kept, all
\* that is left out are deletes of stale events.
PrefixOf(actions, full, budget, holds) ==
  /\ ActionsAmong(actions, MutatingTypes) = FirstOf(ActionsAmong(full, MutatingTypes), budget)
  /\ ActionsAmong(actions, {"skip_overlap"}) = ActionsAmong(full, {"skip_overlap"})
  /\ (\E i \in 1..Len(actions) : IsStaleDelete(actions[i], holds)) =>
       \A j \in 1..Len(full) :
         full[j].type \in MutatingTypes /\ ~IsStaleDelete(full[j], holds) =>
           \E i \in 1..Len(actions) : actions[i] = full[j]

\* C29: for the same desiredHolds, targetEvents and policy, the mutating
\* actions of the plan of budget N are the first min(N, M) mutating actions
\* of the plan of an unlimited budget, the skip_overlap actions of the two
\* plans are the same, and the deletes of stale events are the first
\* mutations to go; one of the plans throws exactly when the other does.
C29_CappedPlanIsPrefix ==
  Planned =>
    /\ Threw(plan) <=> Threw(UnlimitedPlan)
    /\ ~Threw(plan) =>
         PrefixOf(plan.actions, UnlimitedPlan.actions, maxChangesPerRun, desiredHolds)

\* A budget of 1 is spent on the update of a hold, and the delete of a stale
\* hold, the last action of the unlimited plan, is left out.
C29_Witness ==
  /\ pc = "planned"
  /\ maxChangesPerRun = 1
  /\ plan.capped
  /\ Len(plan.actions) = 1
  /\ plan.actions[1].type = "update"
  /\ Len(UnlimitedPlan.actions) = 2
  /\ IsStaleDelete(UnlimitedPlan.actions[2], desiredHolds)

\* The ids of the listing are unique.
UniqueIds(events) == \A i, j \in 1..Len(events) : events[i].id = events[j].id => i = j

\* C30: in a plan for a listing of unique ids no target event is the subject
\* of two mutating actions; each desired key has at most one create, update
\* or skip_overlap; a create is of a key that no managed event carries, and
\* an update is of a managed event that carries its key.
C30_OneActionPerSubject ==
  (pc = "planned" /\ UniqueIds(targetEvents)) =>
    /\ \A i, j \in ActionsOfType(plan.actions, {"update", "delete"}) :
         plan.actions[i].existing.id = plan.actions[j].existing.id => i = j
    /\ \A key \in DesiredKeys(desiredHolds) :
         Cardinality(DesiredActionsFor(plan.actions, key)) <= 1
    /\ \A i \in ActionsOfType(plan.actions, {"create"}) :
         WithKey(Range(targetEvents), Keyed(plan.actions[i].desired.source)) = {}
    /\ \A i \in ActionsOfType(plan.actions, {"update"}) :
         plan.actions[i].existing
           \in WithKey(Range(targetEvents), Keyed(plan.actions[i].desired.source))

\* Two holds of one key are listed: the plan updates the one and deletes the
\* other.
C30_Witness ==
  /\ pc = "planned"
  /\ Len(plan.actions) = 2
  /\ plan.actions[1].type = "update"
  /\ plan.actions[2].type = "delete"
  /\ plan.actions[1].existing.id # plan.actions[2].existing.id
  /\ KeyOfEvent(plan.actions[1].existing) = KeyOfEvent(plan.actions[2].existing)

\* A poll cycle ends here because its snapshot has the stored signature.
\* desiredHolds are then the holds of the snapshot that signature was stored
\* from: the initial one, or that of the last cycle that called executePlan.
SameSignatureStep ==
  /\ pc = "polling"
  /\ pc' = "sleeping"
  /\ watch'.nextSignature # Undefined
  /\ watch'.nextSignature = watch'.previousSignature

\* C31: whenever the desired holds of a poll differ from those of the poll
\* before in a field the planner compares (the description, which carries
\* the title of the source event, among them), the signature differs too: no
\* cycle ends on an equal signature with desired holds that have changed.
C31_SignatureComplete ==
  [][SameSignatureStep =>
       sourceSnapshot(watch.source).desiredHolds = desiredHolds]_vars

\* executePlan is running, or has just failed or returned, in a poll cycle.
InCycleRun ==
  /\ watch.handlers
  /\ watch.nextSignature # Undefined
  /\ watch.nextSignature # watch.previousSignature

\* The last executePlan of the poll loop was capped, or a backend call of
\* its plan failed.
LeftUnfinished ==
  \/ result # NoObject /\ result.capped
  \/ \E i \in 1..Len(calls) : calls[i].op = "fail"

\* C32: the poll loop stores the signature of a snapshot before executePlan
\* runs, so it is the stored one while the plan is applied and after a
\* capped or failed run; and a cycle whose snapshot has the stored signature
\* ends without a plan, a listing of the target or a backend call, and
\* leaves the target, the stored signature and the reported result as they
\* are, whatever the last run left undone.
C32_NoRetry ==
  [][/\ InCycleRun' => watch'.signature = watch'.nextSignature
     /\ (/\ pc = "polling"
         /\ watch'.nextSignature # Undefined
         /\ watch'.nextSignature = watch.signature) =>
          /\ pc' = "sleeping"
          /\ plan' = NoObject
          /\ watch'.signature = watch.signature
          /\ UNCHANGED <<calendar, calls, result, run>>]_vars

\* The second cycle finds the stored signature and sleeps, while the target
\* still requires mutations that the first cycle, capped or failed, has
\* left.
C32_Witness ==
  /\ pc = "sleeping"
  /\ watch.cycle = 2
  /\ watch.nextSignature # Undefined
  /\ watch.nextSignature = watch.previousSignature
  /\ LeftUnfinished
  /\ watch.signature = sourceSnapshot(watch.source).signature
  /\ RequiredMutations(desiredHolds, calendar, overlapPolicy) > 0

\* The number of actions of a type in a plan.
CountOf(actions, type) == Cardinality(ActionsOfType(actions, {type}))

\* C34: when the command is status, or --dry-run is given, or
\* config.safety.dryRun is true, executePlan issues no createEvent,
\* updateEvent or deleteEvent call and the target calendar stays as it was
\* listed; at the end of the loop the counters it returns are the numbers of
\* create, update, delete and skip_overlap actions of the plan.
C34_DryRunLeavesTarget ==
  (watch.command = "status" \/ watch.dryRunFlag \/ watch.safetyDryRun = "true") =>
    /\ calls = <<>>
    /\ pc # "awaiting"
    /\ calendar = Range(targetEvents)
    /\ LoopDone =>
         /\ counters.creates = CountOf(plan.actions, "create")
         /\ counters.updates = CountOf(plan.actions, "update")
         /\ counters.deletes = CountOf(plan.actions, "delete")
         /\ counters.skipped = CountOf(plan.actions, "skip_overlap")

\* A dry run of reconcile, by the setting of the config alone, has been
\* through a plan of a create and a delete.
C34_Witness ==
  /\ LoopDone
  /\ watch.command = "reconcile"
  /\ ~watch.dryRunFlag
  /\ watch.safetyDryRun = "true"
  /\ counters.creates = 1
  /\ counters.deletes = 1
  /\ CountOf(plan.actions, "create") = 1
  /\ CountOf(plan.actions, "delete") = 1

\* The entries of the log of a line for a mapping in a cycle.
Logged(cycle, mapping, line) ==
  {i \in 1..Len(watch.log) :
     watch.log[i] = [cycle |-> cycle, mapping |-> mapping, line |-> line]}

\* C33: in the poll loop over the mappings, whatever the body of a mapping
\* does, fail or not, it leaves the stored signatures and the targets of the
\* other mappings as they are and does not stop the loop: the next mapping
\* of the cycle is polled next, the cycle sleeps only when every mapping
\* has been polled, a snapshot or an executePlan that throws leaves one line
\* for its mapping, from its sleep a running loop goes to its next cycle,
\* and the loop stops only once a signal has cleared `running`.
C33_MappingIsolation ==
  [][/\ pc' = "sleeping" => watch'.polled = watch'.mappings
     /\ pc = "polling" /\ watch'.at # watch.at =>
          /\ \A m \in {"m1", "m2"} \ {watch.mappings[watch.at]} :
               /\ watch'.signatures[m] = watch.signatures[m]
               /\ watch'.reconciled[m] = watch.reconciled[m]
          /\ watch'.polled = Append(watch.polled, watch.mappings[watch.at])
          /\ watch'.at = watch.at + 1
          /\ watch'.running = watch.running
          /\ pc' = IF watch.at < Len(watch.mappings) THEN "polling" ELSE "sleeping"
          /\ watch'.failures # watch.failures =>
               /\ watch'.failures = watch.failures + 1
               /\ watch'.log = Append(watch.log,
                                      [cycle |-> watch.cycle,
                                       mapping |-> watch.mappings[watch.at],
                                       line |-> "watch poll failed"])
     /\ pc = "sleeping" /\ watch.running => pc' \in {"sleeping", "polling"}
     /\ pc' = "stopped" => ~watch'.running]_vars

\* In the first cycle the body of m1 failed and m2 was reconciled after it,
\* and the loop is in its second cycle.
C33_Witness ==
  /\ pc = "polling"
  /\ watch.cycle = 2
  /\ watch.running
  /\ Logged(1, "m1", "watch poll failed") # {}
  /\ \E j \in Logged(1, "m2", "changed") :
       \A i \in Logged(1, "m1", "watch poll failed") : i < j
  /\ watch.reconciled["m2"] # <<>>

\* The events of the target that backfill has changed.
TaggedByBackfill == {e \in calendar : e \notin watch.before}

\* The source events of the listing that pass the filter of backfill (not
\* cancelled, not all day) and have the start and the end of a target event.
EligibleOfRange(target) ==
  {i \in 1..Len(watch.source) :
     /\ watch.source[i].status # <<"c", "a", "n", "c", "e", "l", "l", "e", "d">>
     /\ ~(~Falsy(watch.source[i].start.date) /\ ~Falsy(watch.source[i].end.date))
     /\ watch.source[i].start = target.start
     /\ watch.source[i].end = target.end}

\* An unmanaged event of the shape of a hold: the summary, visibility and
\* transparency of a hold, and no reminder of its own.
HoldShaped(event) ==
  /\ event \in UnmanagedOf({event})
  /\ event.summary = HoldDefaults.summary
  /\ event.visibility = HoldDefaults.visibility
  /\ event.transparency = HoldDefaults.transparency
  /\ event.reminders = NoObject

\* Backfill leaves every managed event of the target as it was; an event it
\* has tagged was an unmanaged event of the shape of a hold with exactly one
\* eligible source event of its start and end; and the plan of a reconcile
\* that follows, on the same source data, takes the tagged event as a
\* managed event of the key of that source event, has no create for that
\* key, and has no delete of the tagged event (when sole is set: if that
\* event is the only managed event of its key in the target).
BackfillThenReconcile(sole) ==
  pc # "backfill" =>
    /\ \A b \in ManagedOf(watch.before) : b \in calendar
    /\ \A e \in TaggedByBackfill :
         \E b \in watch.before :
           /\ b.id = e.id
           /\ HoldShaped(b)
           /\ Cardinality(EligibleOfRange(b)) = 1
           /\ pc = "planned" =>
                \A i \in EligibleOfRange(b) :
                  /\ e \in ManagedOf({e})
                  /\ KeyOfEvent(e) = Keyed(DesiredOf(watch.source[i]).source)
                  /\ \A n \in ActionsOfType(plan.actions, {"create"}) :
                       Keyed(plan.actions[n].desired.source) # KeyOfEvent(e)
                  /\ (sole => WithKey(calendar, KeyOfEvent(e)) = {e}) =>
                       \A n \in ActionsOfType(plan.actions, {"delete"}) :
                         plan.actions[n].existing.id # e.id

\* C35 as claimed: backfill never updates a managed target event and tags
\* an unmanaged event of the shape of a hold only when exactly one eligible
\* source event has its start and end; a reconcile on the same source data
\* then takes the tagged event as the managed hold of that source event and
\* emits neither a create nor a delete for it.
C35_BackfillThenReconcile == BackfillThenReconcile(FALSE)

\* C35 as it holds: the same, where the reconcile emits no create for the
\* key of the tagged event, and no delete of the tagged event when it is the
\* only managed event of its key in the target after backfill.
C35_BackfillThenReconcileSole == BackfillThenReconcile(TRUE)

\* Backfill has tagged an event, and the reconcile that follows plans
\* nothing.
C35_Witness ==
  /\ pc = "planned"
  /\ ~dryRun
  /\ watch.updated = 1
  /\ TaggedByBackfill # {}
  /\ \A e \in TaggedByBackfill : WithKey(calendar, KeyOfEvent(e)) = {e}
  /\ plan.actions = <<>>
  /\ ~plan.capped

====
